---- MODULE Spec2Model ----
(***************************************************************************)
(* A model of github.com/jyopp/absorb: the Absorber session (New, Open,    *)
(* Absorb, accept, Close), the element builder and its plan cache, and the *)
(* value assignment.  The sources hold two revisions of the session:       *)
(*   - src/absorb.go           (Open, Absorb, accept; actions of Spec)     *)
(*   - src/unnamed/part_003    (the revision with the unwrap field;        *)
(*                              OpenUnwrap, AbsorbUnwrap, acceptUnwrap;    *)
(*                              actions of SpecUnwrap)                     *)
(* and the builder each of them calls:                                     *)
(*   - src/unnamed/part_001:189-250  (newBuilderTag, elementSet)           *)
(*   - src/elements.go:191-312       (newBuilder, element, assign)         *)
(* A reflect.Value is a record [typ, val]; a panic is the value Panic.     *)
(***************************************************************************)
EXTENDS Integers, Sequences, FiniteSets, TLC

VARIABLES
    setVal,           \* absorberImpl.setVal: the destination storage, [typ, val]
    idx,              \* absorberImpl.idx
    builder,          \* absorberImpl.builder: a plan, or NoBuilder (nil)
    unwrap,           \* absorberImpl.unwrap (part_003 only)
    cachedAbsorbers,  \* the process-wide plan cache: <<elemTyp, compoundKey>> -> plan
    chanCap,          \* capacity of the destination channel (0: unbuffered)
    chanBuf,          \* elements buffered in the destination channel
    chanClosed,       \* whether the destination channel was closed
    received,         \* what the consumer has received, in order
    pc,               \* "idle", or "send" while Absorb is blocked in Send
    pending,          \* the element the blocked Send holds
    hist,             \* ghost: elements of the Absorb calls completed since Open
    opened,           \* ghost: Open has completed at least once
    heap,             \* the storage pointers refer to: address -> value
    thread,           \* the locals of the goroutines inside a call, by goroutine
    last              \* ghost: the last call, [op, ok, idx0, elem]

vars == <<setVal, idx, builder, unwrap, cachedAbsorbers, chanCap, chanBuf,
          chanClosed, received, pc, pending, hist, opened, heap, thread, last>>

chanVars == <<chanCap, chanBuf, chanClosed, received, pc, pending>>

(***************************************************************************)
(* Bounds of the model.                                                    *)
(***************************************************************************)
MaxRows == 2       \* elements a sequence or a queue history may hold
MaxVals == 2       \* values in one Absorb call
ArrayLen == 2      \* N of the fixed-size buffer type [N]int
MaxChanCap == 1    \* largest channel capacity tried
MaxAddr == 6       \* addresses the storage of pointers may use
MaxThreads == 2    \* goroutines that call into the package at once

(***************************************************************************)
(* Types.  A reflect.Type is its Go spelling.                              *)
(***************************************************************************)
ArrayInt == "[N]int"

Kind(t) ==
    CASE t = "int" -> "Int"
      [] t = "int32" -> "Int32"
      [] t = "uint8" -> "Uint8"
      [] t = "string" -> "String"
      [] t \in {"TestDst", "Tagged", "Folded", "Lower", "StructWithPointerMember",
                "TagFirst", "TagLast", "TagCase"} -> "Struct"
      [] t = "map[string]int" -> "Map"
      [] t \in {"*int", "*TestDst", "*Tagged", "*Folded", "*Lower",
                "*map[string]int", "**int", "*[]int", "*[]TestDst", "*[N]int",
                "*string", "*int32", "*StructWithPointerMember"} -> "Ptr"
      [] t \in {"[]int", "[]TestDst", "[]byte", "[]map[string]int", "[]*int"} -> "Slice"
      [] t = ArrayInt -> "Array"
      [] t \in {"chan int", "chan TestDst", "<-chan int"} -> "Chan"
      [] OTHER -> "Invalid"

Elem(t) ==
    CASE t = "*int" -> "int"
      [] t = "*TestDst" -> "TestDst"
      [] t = "*Tagged" -> "Tagged"
      [] t = "*Folded" -> "Folded"
      [] t = "*Lower" -> "Lower"
      [] t = "*map[string]int" -> "map[string]int"
      [] t = "**int" -> "*int"
      [] t = "*[]int" -> "[]int"
      [] t = "*[]TestDst" -> "[]TestDst"
      [] t = "*[N]int" -> ArrayInt
      [] t = "*string" -> "string"
      [] t = "*int32" -> "int32"
      [] t = "*StructWithPointerMember" -> "StructWithPointerMember"
      [] t = "<-chan int" -> "int"
      [] t = "[]int" -> "int"
      [] t = "[]TestDst" -> "TestDst"
      [] t = "[]byte" -> "uint8"
      [] t = "[]map[string]int" -> "map[string]int"
      [] t = "[]*int" -> "*int"
      [] t = ArrayInt -> "int"
      [] t = "chan int" -> "int"
      [] t = "chan TestDst" -> "TestDst"
      [] t = "map[string]int" -> "int"
      [] OTHER -> "invalid"

PtrTo(t) ==
    CASE t = "int" -> "*int"
      [] t = "TestDst" -> "*TestDst"
      [] t = "map[string]int" -> "*map[string]int"
      [] OTHER -> "*" \o t

TypeLen(t) == IF t = ArrayInt THEN ArrayLen ELSE 0

\* Type.ChanDir of a channel type
ChanDir(t) == IF t = "<-chan int" THEN "RecvDir" ELSE "BothDir"

\* reflect.StructField: Index 0 is the zero StructField (a nil index path).
NoTags == [t \in {} |-> ""]
NoField == [Name |-> "", Type |-> "", Tags |-> NoTags, Index |-> 0]

\* type TestDst struct { Name string; Actual int `test:"Aliased"`; Unused int }
TestDstFields ==
    << [Name |-> "Name",   Type |-> "string", Tags |-> NoTags, Index |-> 1],
       [Name |-> "Actual", Type |-> "int",
        Tags |-> [t \in {"test"} |-> "Aliased"], Index |-> 2],
       [Name |-> "Unused", Type |-> "int",    Tags |-> NoTags, Index |-> 3] >>

\* type Tagged struct { Name string; Actual int `test:"Aliased"`;
\*                      Hidden int `test:""`; NAME string }
TaggedFields ==
    << [Name |-> "Name",   Type |-> "string", Tags |-> NoTags, Index |-> 1],
       [Name |-> "Actual", Type |-> "int",
        Tags |-> [t \in {"test"} |-> "Aliased"], Index |-> 2],
       [Name |-> "Hidden", Type |-> "int",
        Tags |-> [t \in {"test"} |-> ""], Index |-> 3],
       [Name |-> "NAME",   Type |-> "string", Tags |-> NoTags, Index |-> 4] >>

\* type Folded struct { NAME string; Name string }
FoldedFields ==
    << [Name |-> "NAME", Type |-> "string", Tags |-> NoTags, Index |-> 1],
       [Name |-> "Name", Type |-> "string", Tags |-> NoTags, Index |-> 2] >>

\* type Lower struct { Name string; name string }
LowerFields ==
    << [Name |-> "Name", Type |-> "string", Tags |-> NoTags, Index |-> 1],
       [Name |-> "name", Type |-> "string", Tags |-> NoTags, Index |-> 2] >>

\* type StructWithPointerMember struct { Value *string }
PointerMemberFields ==
    << [Name |-> "Value", Type |-> "*string", Tags |-> NoTags, Index |-> 1] >>

\* type TagFirst struct { Actual int `test:"Name"`; Name string }
TagFirstFields ==
    << [Name |-> "Actual", Type |-> "int",
        Tags |-> [t \in {"test"} |-> "Name"], Index |-> 1],
       [Name |-> "Name", Type |-> "string", Tags |-> NoTags, Index |-> 2] >>

\* type TagLast struct { Name string; Actual int `test:"Name"` }
TagLastFields ==
    << [Name |-> "Name", Type |-> "string", Tags |-> NoTags, Index |-> 1],
       [Name |-> "Actual", Type |-> "int",
        Tags |-> [t \in {"test"} |-> "Name"], Index |-> 2] >>

\* type TagCase struct { Actual int `test:"name"`; Name string }
TagCaseFields ==
    << [Name |-> "Actual", Type |-> "int",
        Tags |-> [t \in {"test"} |-> "name"], Index |-> 1],
       [Name |-> "Name", Type |-> "string", Tags |-> NoTags, Index |-> 2] >>

StructFields(t) ==
    CASE t = "TestDst" -> TestDstFields
      [] t = "TagFirst" -> TagFirstFields
      [] t = "TagLast" -> TagLastFields
      [] t = "TagCase" -> TagCaseFields
      [] t = "StructWithPointerMember" -> PointerMemberFields
      [] t = "Tagged" -> TaggedFields
      [] t = "Folded" -> FoldedFields
      [] t = "Lower" -> LowerFields
      [] OTHER -> << >>

(***************************************************************************)
(* Values.                                                                 *)
(***************************************************************************)
NilVal == [typ |-> "nil", val |-> 0]        \* reflect.ValueOf(nil): not IsValid
Panic == [typ |-> "panic", val |-> 0]
IntV(n) == [typ |-> "int", val |-> n]
Int32V(n) == [typ |-> "int32", val |-> n]
ByteV(n) == [typ |-> "uint8", val |-> n]
Blob(b) == [typ |-> "[]byte", val |-> [i \in 1..Len(b) |-> ByteV(b[i])]]
StrV(s) == [typ |-> "string", val |-> s]    \* s: the sequence of code points
PtrVal(t, v) == [typ |-> t, val |-> <<v>>]  \* a non-nil pointer of type t to v
NilPtr(t) == [typ |-> t, val |-> << >>]

IsValid(v) == v.typ /= "nil"
IsPanic(v) == v.typ = "panic"

RECURSIVE Zero(_)
Zero(t) ==
    CASE Kind(t) = "Int" -> IntV(0)
      [] Kind(t) = "Int32" -> Int32V(0)
      [] Kind(t) = "Uint8" -> ByteV(0)
      [] Kind(t) = "String" -> StrV(<< >>)
      [] Kind(t) = "Struct" ->
            [typ |-> t,
             val |-> [i \in 1..Len(StructFields(t)) |-> Zero(StructFields(t)[i].Type)]]
      [] Kind(t) = "Array" -> [typ |-> t, val |-> [i \in 1..TypeLen(t) |-> Zero(Elem(t))]]
      [] OTHER -> [typ |-> t, val |-> << >>]   \* nil map, pointer, slice, channel

\* reflect.Indirect
Indirect(v) ==
    IF Kind(v.typ) = "Ptr"
    THEN IF v.val = << >> THEN NilVal ELSE v.val[1]
    ELSE v

\* reflect.New(t): a pointer to a fresh zero value
ReflectNew(t) == PtrVal(PtrTo(t), Zero(t))

\* Type.AssignableTo for the types of the model (no interface types)
AssignableTo(src, dst) == src = dst

Numeric == {"int", "int32", "uint8"}

\* Type.ConvertibleTo
ConvertibleTo(src, dst) ==
    \/ src = dst
    \/ src \in Numeric /\ dst \in Numeric
    \/ src \in Numeric /\ dst = "string"
    \/ src = "string" /\ dst = "[]byte"
    \/ src = "[]byte" /\ dst = "string"

\* Value.Convert: a number keeps its value under a new type; a number converted
\* to string is the one-rune string of that code point.
Convert(v, dst) ==
    IF ~IsValid(v) \/ ~ConvertibleTo(v.typ, dst) THEN Panic
    ELSE IF v.typ = dst THEN v
    ELSE IF v.typ = "string" THEN Blob(v.val)
    ELSE IF v.typ = "[]byte" THEN StrV([i \in 1..Len(v.val) |-> v.val[i].val])
    ELSE IF dst = "string" THEN StrV(<<v.val>>)
    ELSE IF dst = "uint8" THEN ByteV(v.val % 256)
    ELSE [typ |-> dst, val |-> v.val]

\* Value.Set(x) on a slot of type t: the stored value, or Panic
SetTo(t, x) == IF IsValid(x) /\ ~IsPanic(x) /\ AssignableTo(x.typ, t) THEN x ELSE Panic

(***************************************************************************)
(* The element builder (the binding plan) and its cache.                   *)
(***************************************************************************)
NoBuilder == [Type |-> "", Keys |-> << >>, Fields |-> << >>]   \* a nil *elementBuilder

\* strings.ToLower on the names the model uses
ToLower(s) ==
    CASE s = "Name" -> "name"
      [] s = "NAME" -> "name"
      [] s = "Actual" -> "actual"
      [] s = "Unused" -> "unused"
      [] s = "Hidden" -> "hidden"
      [] s = "Value" -> "value"
      [] s = "Name+Actual" -> "name+actual"
      [] s = "Aliased" -> "aliased"
      [] s = "Bogus" -> "bogus"
      [] OTHER -> s

RECURSIVE Join(_, _)
\* strings.Join
Join(keys, sep) ==
    IF keys = << >> THEN ""
    ELSE IF Len(keys) = 1 THEN keys[1]
    ELSE keys[1] \o sep \o Join(Tail(keys), sep)

compoundKey(tag, keys) == tag \o ":" \o Join(keys, "+")

\* a Go map after m[k] = v
MapPut(m, k, v) == [x \in (DOMAIN m) \cup {k} |-> IF x = k THEN v ELSE m[x]]

\* a Go map after delete(m, k)
MapDelete(m, k) == [x \in (DOMAIN m) \ {k} |-> m[x]]

\* StructTag.Get
TagGet(field, tag) == IF tag \in DOMAIN field.Tags THEN field.Tags[tag] ELSE ""

\* Type.FieldByName: the field of that exact name, or the zero StructField
FieldByName(t, key) ==
    LET fs == StructFields(t)
        hit == {i \in 1..Len(fs) : fs[i].Name = key}
    IN  IF hit = {} THEN NoField ELSE fs[CHOOSE i \in hit : TRUE]

RECURSIVE mappedFieldsNamesToo(_, _, _)
\* a name -> field table that enters the names of annotated fields as well
mappedFieldsNamesToo(t, tag, n) ==
    IF n = 0 THEN [x \in {} |-> NoField]
    ELSE LET m == mappedFieldsNamesToo(t, tag, n - 1)
             field == StructFields(t)[n]
             lowered == ToLower(field.Name)
             m0 == IF tag \in DOMAIN field.Tags /\ field.Tags[tag] /= ""
                   THEN MapPut(m, field.Tags[tag], field) ELSE m
             m1 == MapPut(m0, field.Name, field)
         IN  IF lowered \in DOMAIN m1 THEN m1 ELSE MapPut(m1, lowered, field)

RECURSIVE mappedFields(_, _, _)
\* newBuilder's first loop over fields 1..n: the name -> field table
mappedFields(t, tag, n) ==
    IF n = 0 THEN [x \in {} |-> NoField]
    ELSE LET m == mappedFields(t, tag, n - 1)
             field == StructFields(t)[n]
             lowered == ToLower(field.Name)
         IN  IF tag \in DOMAIN field.Tags
             THEN IF field.Tags[tag] /= "" THEN MapPut(m, field.Tags[tag], field) ELSE m
             ELSE LET m1 == MapPut(m, field.Name, field)
                  IN  IF lowered \in DOMAIN m1 THEN m1 ELSE MapPut(m1, lowered, field)

newBuilder(elemTyp, tag, keys) ==
    [Type |-> elemTyp,
     Keys |-> keys,
     Fields |->
        IF Kind(elemTyp) = "Struct"
        THEN LET m == mappedFields(elemTyp, tag, Len(StructFields(elemTyp)))
             IN  [i \in 1..Len(keys) |->
                    IF keys[i] \in DOMAIN m THEN m[keys[i]]
                    ELSE IF ToLower(keys[i]) \in DOMAIN m THEN m[ToLower(keys[i])]
                    ELSE NoField]
        ELSE << >>]

RECURSIVE tagFields(_, _, _)
\* the earlier newBuilder's loop over fields 1..n: the tag value -> field table
tagFields(t, tag, n) ==
    IF n = 0 \/ tag = "" THEN [x \in {} |-> NoField]
    ELSE LET m == tagFields(t, tag, n - 1)
             field == StructFields(t)[n]
         IN  IF TagGet(field, tag) /= "" THEN MapPut(m, TagGet(field, tag), field) ELSE m

newBuilderTag(elemTyp, tag, keys) ==
    [Type |-> elemTyp,
     Keys |-> keys,
     Fields |->
        IF Kind(elemTyp) = "Struct"
        THEN LET m == tagFields(elemTyp, tag, Len(StructFields(elemTyp)))
             IN  [i \in 1..Len(keys) |->
                    IF keys[i] \in DOMAIN m THEN m[keys[i]]
                    ELSE FieldByName(elemTyp, keys[i])]
        ELSE << >>]

\* getBuilder: the cached plan of (elemTyp, tag:keys), or toPut stored and returned
getBuilder(cache, elemTyp, tag, keys, toPut) ==
    LET k == <<elemTyp, compoundKey(tag, keys)>>
    IN  IF k \in DOMAIN cache
        THEN [plan |-> cache[k], cache |-> cache]
        ELSE [plan |-> toPut, cache |-> MapPut(cache, k, toPut)]

(***************************************************************************)
(* Value assignment and element construction.                              *)
(***************************************************************************)
\* _assign(dst, src) for a slot of type dstType: the value the slot holds
\* afterwards, or Panic
assign(dstType, src) ==
    IF src.typ = dstType \/ AssignableTo(src.typ, dstType) THEN src
    ELSE LET srcIsPtr == Kind(src.typ) = "Ptr"
             srcType == IF srcIsPtr THEN Elem(src.typ) ELSE src.typ
             src1 == IF srcIsPtr THEN Indirect(src) ELSE src
         IN  IF Kind(dstType) = "Ptr"
             THEN LET inner ==
                          IF AssignableTo(srcType, Elem(dstType))
                          THEN SetTo(Elem(dstType), src1)
                          ELSE Convert(src1, Elem(dstType))
                  IN  IF IsPanic(inner) THEN Panic ELSE PtrVal(dstType, inner)
             ELSE Convert(src1, dstType)

RECURSIVE elementMapZero(_, _, _)
\* element, case reflect.Map, storing a zero value under the key of an absent value
elementMapZero(a, values, n) ==
    IF n = 0 THEN [x \in {} |-> NilVal]
    ELSE LET m == elementMapZero(a, values, n - 1)
         IN  IF m = Panic THEN Panic
             ELSE IF n > Len(a.Keys) THEN Panic
             ELSE IF ~IsValid(values[n]) THEN MapPut(m, a.Keys[n], Zero(Elem(a.Type)))
             ELSE LET mapVal == assign(Elem(a.Type), values[n])
                  IN  IF IsPanic(mapVal) THEN Panic ELSE MapPut(m, a.Keys[n], mapVal)

RECURSIVE elementMap(_, _, _)
\* element, case reflect.Map: the map after the loop has run over values[1..n]
elementMap(a, values, n) ==
    IF n = 0 THEN [x \in {} |-> NilVal]
    ELSE LET m == elementMap(a, values, n - 1)
         IN  IF m = Panic THEN Panic
             ELSE IF n > Len(a.Keys) THEN Panic          \* a.Keys[idx] out of range
             ELSE IF ~IsValid(values[n]) THEN m
             ELSE LET mapVal == assign(Elem(a.Type), values[n])
                  IN  IF IsPanic(mapVal) THEN Panic ELSE MapPut(m, a.Keys[n], mapVal)

\* writing x into the field a StructField locates; a zero StructField has a nil
\* index path, and FieldByIndex(nil) is the struct itself
SetField(dstVal, field, x) ==
    IF field.Index = 0 THEN x
    ELSE [dstVal EXCEPT !.val[field.Index] = x]

FieldType(a, field) == IF field.Index = 0 THEN a.Type ELSE field.Type

\* a field reached through a lower-case name is read-only for reflect: Set panics
CanSet(field) == field.Index = 0 \/ field.Name /= ToLower(field.Name)

RECURSIVE elementStruct(_, _, _)
\* element, case reflect.Struct: the struct after the loop has run over Fields[1..n]
elementStruct(a, values, n) ==
    IF n = 0 THEN Zero(a.Type)
    ELSE LET dstVal == elementStruct(a, values, n - 1)
         IN  IF IsPanic(dstVal) THEN Panic
             ELSE IF n > Len(values) THEN Panic           \* values[idx] out of range
             ELSE IF ~IsValid(values[n]) THEN dstVal
             ELSE LET f == assign(FieldType(a, a.Fields[n]), values[n])
                  IN  IF IsPanic(f) \/ ~CanSet(a.Fields[n]) THEN Panic
                      ELSE SetField(dstVal, a.Fields[n], f)

\* elementBuilder.element: the reflect.Value returned (a pointer when possible,
\* NilVal for the zero Value), or Panic
element(a, values) ==
    CASE Kind(a.Type) = "Map" ->
            LET m == elementMap(a, values, Len(values))
            IN  IF m = Panic THEN Panic ELSE [typ |-> a.Type, val |-> m]
      [] Kind(a.Type) = "Struct" ->
            LET dstVal == elementStruct(a, values, Len(a.Fields))
            IN  IF IsPanic(dstVal) THEN Panic ELSE PtrVal(PtrTo(a.Type), dstVal)
      [] OTHER ->
            IF Len(values) = 0 THEN NilVal
            ELSE IF Len(values) > 1 THEN Panic
            ELSE IF ~IsValid(values[1]) THEN Panic        \* val.Type() of the zero Value
            ELSE IF values[1].typ = a.Type \/ values[1].typ = PtrTo(a.Type) THEN values[1]
            ELSE LET dstVal == assign(a.Type, values[1])
                 IN  IF IsPanic(dstVal) THEN Panic ELSE PtrVal(PtrTo(a.Type), dstVal)

RECURSIVE elementSetMap(_, _, _)
\* the earlier element, case reflect.Map, after values[1..n]
elementSetMap(a, values, n) ==
    IF n = 0 THEN [x \in {} |-> NilVal]
    ELSE LET m == elementSetMap(a, values, n - 1)
         IN  IF m = Panic THEN Panic
             ELSE IF n > Len(a.Keys) THEN Panic
             ELSE IF ~IsValid(values[n]) THEN MapDelete(m, a.Keys[n])
             ELSE IF IsPanic(SetTo(Elem(a.Type), values[n])) THEN Panic
             ELSE MapPut(m, a.Keys[n], values[n])

RECURSIVE elementSetStruct(_, _, _)
\* the earlier element, case reflect.Struct, after Fields[1..n]
elementSetStruct(a, values, n) ==
    IF n = 0 THEN Zero(a.Type)
    ELSE LET dstVal == elementSetStruct(a, values, n - 1)
         IN  IF IsPanic(dstVal) THEN Panic
             ELSE IF n > Len(values) THEN Panic
             ELSE LET f == SetTo(FieldType(a, a.Fields[n]), values[n])
                  IN  IF IsPanic(f) THEN Panic ELSE SetField(dstVal, a.Fields[n], f)

\* the earlier elementBuilder.element: a value of a.Type, or Panic
elementSet(a, values) ==
    CASE Kind(a.Type) = "Map" ->
            LET m == elementSetMap(a, values, Len(values))
            IN  IF m = Panic THEN Panic ELSE [typ |-> a.Type, val |-> m]
      [] Kind(a.Type) = "Struct" -> elementSetStruct(a, values, Len(a.Fields))
      [] OTHER ->
            IF Len(values) = 0 THEN Panic                 \* values[0] out of range
            ELSE SetTo(a.Type, values[1])

(***************************************************************************)
(* The inputs the callers draw from.                                       *)
(***************************************************************************)
Tags == {"", "test"}

\* the (tag, keys) pairs a producer opens a session with
OpenArgs ==
    { [tag |-> "",     keys |-> << >>],
      [tag |-> "test", keys |-> <<"Name", "Aliased">>] }

Counts == (-1)..(ArrayLen + 1)

\* the values a producer passes to Absorb
Vals == {NilVal, IntV(1), IntV(2), StrV(<<1>>)}

Rows == UNION {[1..n -> Vals] : n \in 0..MaxVals}

NoCall == [op |-> "New", ok |-> TRUE, idx0 |-> 0, elem |-> NilVal]

\* the record of a call: elem is the element built (Panic if element panicked)
Call(op, ok, elem) == [op |-> op, ok |-> ok, idx0 |-> idx, elem |-> elem]

(***************************************************************************)
(* The session of src/absorb.go.                                           *)
(***************************************************************************)
\* the destinations New is called with: New keeps dstVal.Elem() of a pointer,
\* or the channel itself
DstTypes == {"int", "TestDst", "map[string]int", "*int", "[]int", "[]TestDst",
             ArrayInt, "chan int"}

\* what a destination may hold before the session starts
InitialDst(t) ==
    {Zero(t)} \cup
    (CASE t = "int" -> {IntV(2)}
       [] t = "*int" -> {PtrVal(t, IntV(2))}
       [] t = "[]int" -> {[typ |-> t, val |-> <<IntV(2)>>]}
       [] t = "[]byte" -> {Blob(<<3>>)}
       [] OTHER -> {})

\* New: the fields of the absorberImpl returned
InitSession(types) ==
    /\ setVal \in UNION {InitialDst(t) : t \in types}
    /\ idx = 0
    /\ builder = NoBuilder
    /\ unwrap = FALSE
    /\ cachedAbsorbers = [k \in {} |-> NoBuilder]
    /\ chanCap \in (IF Kind(setVal.typ) = "Chan" THEN 0..MaxChanCap ELSE {0})
    /\ chanBuf = << >>
    /\ chanClosed = FALSE
    /\ received = << >>
    /\ pc = "idle"
    /\ pending = NilVal
    /\ hist = << >>
    /\ opened = FALSE
    /\ heap = << >>
    /\ thread = << >>
    /\ last = NoCall

\* OpenSwitch with the capacity test off by one (count >= Len panics)
OpenSwitchOffByOne(into, count) ==
    CASE Kind(into.typ) = "Array" ->
            IF count >= TypeLen(into.typ)
            THEN [ok |-> FALSE, setVal |-> into, elemTyp |-> ""]
            ELSE [ok |-> TRUE, setVal |-> into, elemTyp |-> Elem(into.typ)]
      [] Kind(into.typ) = "Slice" ->
            IF count < 0
            THEN [ok |-> FALSE, setVal |-> into, elemTyp |-> ""]
            ELSE [ok |-> TRUE, setVal |-> [into EXCEPT !.val = << >>],
                  elemTyp |-> Elem(into.typ)]
      [] Kind(into.typ) = "Chan" ->
            [ok |-> TRUE, setVal |-> into, elemTyp |-> Elem(into.typ)]
      [] OTHER ->
            IF count >= 1
            THEN [ok |-> FALSE, setVal |-> into, elemTyp |-> ""]
            ELSE [ok |-> TRUE, setVal |-> into, elemTyp |-> into.typ]

\* Open up to the reset: the container after the switch and the element type,
\* or ok = FALSE for a panic
OpenSwitch(into, count) ==
    CASE Kind(into.typ) = "Array" ->
            IF count > TypeLen(into.typ)
            THEN [ok |-> FALSE, setVal |-> into, elemTyp |-> ""]
            ELSE [ok |-> TRUE, setVal |-> into, elemTyp |-> Elem(into.typ)]
      [] Kind(into.typ) = "Slice" ->
            IF count < 0                      \* reflect.MakeSlice: negative cap
            THEN [ok |-> FALSE, setVal |-> into, elemTyp |-> ""]
            ELSE [ok |-> TRUE, setVal |-> [into EXCEPT !.val = << >>],
                  elemTyp |-> Elem(into.typ)]
      [] Kind(into.typ) = "Chan" ->
            [ok |-> TRUE, setVal |-> into, elemTyp |-> Elem(into.typ)]
      [] OTHER ->
            IF count > 1 \/ ~IsValid(into)        \* Type() of the zero Value panics
            THEN [ok |-> FALSE, setVal |-> into, elemTyp |-> ""]
            ELSE [ok |-> TRUE, setVal |-> into, elemTyp |-> into.typ]

Open(tag, count, keys) ==
    /\ UNCHANGED <<heap, thread>>
    /\ pc = "idle"
    /\ LET r == OpenSwitch(setVal, count)
           g == getBuilder(cachedAbsorbers, r.elemTyp, tag, keys,
                           newBuilderTag(r.elemTyp, tag, keys))
       IN  IF r.ok
           THEN /\ setVal' = r.setVal
                /\ idx' = 0
                /\ builder' = g.plan
                /\ cachedAbsorbers' = g.cache
                /\ hist' = IF Kind(setVal.typ) = "Chan" THEN hist ELSE << >>
                /\ opened' = TRUE
                /\ last' = Call("Open", TRUE, NilVal)
           ELSE /\ last' = Call("Open", FALSE, NilVal)
                /\ UNCHANGED <<setVal, idx, builder, cachedAbsorbers, hist, opened>>
    /\ UNCHANGED <<unwrap, chanVars>>

\* accept that puts the new element in front of a sequence
acceptPrepend(into, elem, i) ==
    CASE Kind(into.typ) = "Slice" ->
            IF IsPanic(SetTo(Elem(into.typ), elem)) THEN Panic
            ELSE [into EXCEPT !.val = <<elem>> \o @]
      [] Kind(into.typ) = "Array" ->
            IF i >= TypeLen(into.typ) \/ IsPanic(SetTo(Elem(into.typ), elem)) THEN Panic
            ELSE [into EXCEPT !.val[i + 1] = elem]
      [] OTHER ->
            IF i > 0 THEN Panic ELSE SetTo(into.typ, elem)

\* accept that wraps around a full buffer instead of failing
acceptWraps(into, elem, i) ==
    CASE Kind(into.typ) = "Slice" ->
            IF IsPanic(SetTo(Elem(into.typ), elem)) THEN Panic
            ELSE [into EXCEPT !.val = Append(@, elem)]
      [] Kind(into.typ) = "Array" ->
            IF IsPanic(SetTo(Elem(into.typ), elem)) THEN Panic
            ELSE [into EXCEPT !.val[(i % TypeLen(into.typ)) + 1] = elem]
      [] OTHER ->
            IF i > 0 THEN Panic ELSE SetTo(into.typ, elem)

\* accept for the containers that are not channels: the container afterwards,
\* or Panic
accept(into, elem, i) ==
    CASE Kind(into.typ) = "Slice" ->
            IF IsPanic(SetTo(Elem(into.typ), elem)) THEN Panic
            ELSE [into EXCEPT !.val = Append(@, elem)]
      [] Kind(into.typ) = "Array" ->
            IF i >= TypeLen(into.typ) \/ IsPanic(SetTo(Elem(into.typ), elem)) THEN Panic
            ELSE [into EXCEPT !.val[i + 1] = elem]
      [] OTHER ->
            IF i > 0 THEN Panic ELSE SetTo(into.typ, elem)

\* the call has panicked before it changed anything
Fails(op, elem) ==
    /\ last' = Call(op, FALSE, elem)
    /\ UNCHANGED <<setVal, idx, builder, unwrap, cachedAbsorbers, chanVars, hist, opened>>

\* Send that loses the element when the buffer has room
SendDrops(elem) ==
    IF chanClosed \/ IsPanic(SetTo(Elem(setVal.typ), elem))
    THEN Fails("Absorb", elem)
    ELSE IF Len(chanBuf) < chanCap
    THEN /\ idx' = idx + 1
         /\ hist' = Append(hist, elem)
         /\ last' = Call("Absorb", TRUE, elem)
         /\ UNCHANGED <<setVal, builder, unwrap, cachedAbsorbers, chanVars, opened>>
    ELSE /\ pc' = "send"
         /\ pending' = elem
         /\ last' = Call("Send", TRUE, elem)
         /\ UNCHANGED <<setVal, idx, builder, unwrap, cachedAbsorbers, chanCap, chanBuf,
                        chanClosed, received, hist, opened>>

\* Send that never waits: a full queue takes the element anyway
SendNeverBlocks(elem) ==
    IF chanClosed \/ IsPanic(SetTo(Elem(setVal.typ), elem))
    THEN Fails("Absorb", elem)
    ELSE /\ chanBuf' = Append(chanBuf, elem)
         /\ idx' = idx + 1
         /\ hist' = Append(hist, elem)
         /\ last' = Call("Absorb", TRUE, elem)
         /\ UNCHANGED <<setVal, builder, unwrap, cachedAbsorbers, chanCap, chanClosed,
                        received, pc, pending, opened>>

\* accept, case reflect.Chan: into.Send(elem), then the rest of Absorb
Send(elem) ==
    IF chanClosed \/ IsPanic(SetTo(Elem(setVal.typ), elem))
    THEN Fails("Absorb", elem)
    ELSE IF Len(chanBuf) < chanCap
    THEN /\ chanBuf' = Append(chanBuf, elem)
         /\ idx' = idx + 1
         /\ hist' = Append(hist, elem)
         /\ last' = Call("Absorb", TRUE, elem)
         /\ UNCHANGED <<setVal, builder, unwrap, cachedAbsorbers, chanCap, chanClosed,
                        received, pc, pending, opened>>
    ELSE /\ pc' = "send"                      \* blocked until a receiver takes it
         /\ pending' = elem
         /\ last' = Call("Send", TRUE, elem)
         /\ UNCHANGED <<setVal, idx, builder, unwrap, cachedAbsorbers, chanCap, chanBuf,
                        chanClosed, received, hist, opened>>

\* the rest of Absorb once the element is built
Accepts(elem, into) ==
    IF IsPanic(elem) THEN Fails("Absorb", elem)
    ELSE IF Kind(setVal.typ) = "Chan" THEN Send(elem)
    ELSE IF IsPanic(into) THEN Fails("Absorb", elem)
    ELSE /\ setVal' = into
         /\ idx' = idx + 1
         /\ hist' = Append(hist, elem)
         /\ last' = Call("Absorb", TRUE, elem)
         /\ UNCHANGED <<builder, unwrap, cachedAbsorbers, chanVars, opened>>

\* an Absorb that, without a plan, skips the row instead of failing
AbsorbSkipsWithoutPlan(values) ==
    /\ UNCHANGED <<heap, thread>>
    /\ pc = "idle"
    /\ IF builder = NoBuilder
       THEN /\ idx' = idx + 1
            /\ last' = Call("Absorb", TRUE, NilVal)
            /\ UNCHANGED <<setVal, builder, unwrap, cachedAbsorbers, chanVars, hist, opened>>
       ELSE LET elem == elementSet(builder, values)
            IN  Accepts(elem, IF IsPanic(elem) THEN Panic ELSE accept(setVal, elem, idx))

Absorb(values) ==
    /\ UNCHANGED <<heap, thread>>
    /\ pc = "idle"
    /\ LET elem == IF builder = NoBuilder THEN Panic ELSE elementSet(builder, values)
       IN  Accepts(elem, IF IsPanic(elem) THEN Panic ELSE accept(setVal, elem, idx))

\* a Close that also rewinds the cursor
CloseRewinds ==
    /\ UNCHANGED <<heap, thread>>
    /\ pc = "idle"
    /\ builder' = NoBuilder
    /\ idx' = 0
    /\ last' = Call("Close", TRUE, NilVal)
    /\ UNCHANGED <<setVal, unwrap, cachedAbsorbers, chanVars, hist, opened>>

Close ==
    /\ UNCHANGED <<heap, thread>>
    /\ pc = "idle"
    /\ builder' = NoBuilder
    /\ last' = Call("Close", TRUE, NilVal)
    /\ UNCHANGED <<setVal, idx, unwrap, cachedAbsorbers, chanVars, hist, opened>>

\* the consumer receives one element (for received := range dst); a sender
\* blocked in Send is released, and its Absorb runs to its end (a.idx++)
Recv ==
    /\ UNCHANGED <<heap, thread>>
    /\ Kind(setVal.typ) = "Chan"
    /\ \/ chanBuf /= << >>
       \/ pc = "send"
    /\ received' = Append(received, IF chanBuf /= << >> THEN Head(chanBuf) ELSE pending)
    /\ IF pc = "send"
       THEN /\ chanBuf' = IF chanBuf /= << >> THEN Append(Tail(chanBuf), pending) ELSE chanBuf
            /\ pc' = "idle"
            /\ pending' = NilVal
            /\ idx' = idx + 1
            /\ hist' = Append(hist, pending)
            /\ last' = [last EXCEPT !.op = "Absorb"]
       ELSE /\ chanBuf' = Tail(chanBuf)
            /\ UNCHANGED <<pc, pending, idx, hist, last>>
    /\ UNCHANGED <<setVal, builder, unwrap, cachedAbsorbers, chanCap, chanClosed, opened>>

\* the caller closes the channel once Emit has returned (close(dst))
CallerClose ==
    /\ UNCHANGED <<heap, thread>>
    /\ Kind(setVal.typ) = "Chan"
    /\ pc = "idle"
    /\ opened
    /\ builder = NoBuilder
    /\ ~chanClosed
    /\ chanClosed' = TRUE
    /\ last' = Call("close", TRUE, NilVal)
    /\ UNCHANGED <<setVal, idx, builder, unwrap, cachedAbsorbers, chanCap, chanBuf,
                   received, pc, pending, hist, opened>>

\* the model stops growing a sequence, a queue history or the cursor of a
\* single-valued destination at MaxRows (a fixed buffer bounds itself)
Room ==
    /\ Kind(setVal.typ) = "Slice" => Len(setVal.val) < MaxRows
    /\ Kind(setVal.typ) = "Chan" => Len(hist) < MaxRows
    /\ Kind(setVal.typ) \notin {"Slice", "Chan", "Array"} => idx < MaxRows

Init == InitSession(DstTypes)

Next ==
    \/ \E a \in OpenArgs, count \in Counts : Open(a.tag, count, a.keys)
    \/ \E values \in Rows : Room /\ Absorb(values)
    \/ Close
    \/ Recv
    \/ CallerClose

Spec == Init /\ [][Next]_vars

(***************************************************************************)
(* The session of src/unnamed/part_003 (the revision with unwrap), which   *)
(* builds its elements with element of src/elements.go.                    *)
(***************************************************************************)
\* (queue destinations are explored in Spec: Send and the consumer are the same)
DstTypesUnwrap == {"int", "*int", "TestDst", "*TestDst", "map[string]int",
                   "[]int", "[]TestDst", ArrayInt}

OpenArgsUnwrap ==
    { [tag |-> "",     keys |-> << >>],
      [tag |-> "",     keys |-> <<"Name">>],
      [tag |-> "test", keys |-> <<"Name", "Bogus">>],
      [tag |-> "",     keys |-> <<"Name", "Name">>] }

ValsUnwrap == Vals

RowsUnwrap == UNION {[1..n -> ValsUnwrap] : n \in 0..MaxVals}

\* Open up to the reset: the element type after the switch, or ok = FALSE for
\* a panic
OpenUnwrapSwitch(into, count, keys) ==
    CASE Kind(into.typ) = "Array" ->
            IF count > TypeLen(into.typ) THEN [ok |-> FALSE, elemTyp |-> ""]
            ELSE [ok |-> TRUE,
                  elemTyp |-> IF Len(keys) > 0 THEN Elem(into.typ) ELSE into.typ]
      [] Kind(into.typ) = "Slice" ->
            [ok |-> TRUE, elemTyp |-> IF Len(keys) > 0 THEN Elem(into.typ) ELSE into.typ]
      [] Kind(into.typ) = "Chan" ->
            [ok |-> TRUE, elemTyp |-> Elem(into.typ)]
      [] OTHER ->
            IF count > 1 THEN [ok |-> FALSE, elemTyp |-> ""]
            ELSE [ok |-> TRUE, elemTyp |-> into.typ]

OpenUnwrap(tag, count, keys) ==
    /\ UNCHANGED <<heap, thread>>
    /\ pc = "idle"
    /\ LET r == OpenUnwrapSwitch(setVal, count, keys)
           isPtr == Kind(r.elemTyp) = "Ptr"
           elemTyp == IF isPtr THEN Elem(r.elemTyp) ELSE r.elemTyp
           g == getBuilder(cachedAbsorbers, elemTyp, tag, keys,
                           newBuilder(elemTyp, tag, keys))
       IN  IF r.ok
           THEN /\ idx' = 0
                /\ unwrap' = ~isPtr
                /\ builder' = g.plan
                /\ cachedAbsorbers' = g.cache
                /\ hist' = IF Kind(setVal.typ) = "Chan" THEN hist ELSE << >>
                /\ opened' = TRUE
                /\ last' = Call("Open", TRUE, NilVal)
           ELSE /\ last' = Call("Open", FALSE, NilVal)
                /\ UNCHANGED <<idx, unwrap, builder, cachedAbsorbers, hist, opened>>
    /\ UNCHANGED <<setVal, chanVars>>

\* accept for the containers that are not channels: whether it returned, and
\* the container afterwards (a panic may come after a first write)
acceptUnwrap(into, elem, i) ==
    CASE Kind(into.typ) = "Slice" ->
            IF ~IsValid(elem) THEN [ok |-> FALSE, into |-> into]    \* elem.Type()
            ELSE IF into.typ = elem.typ THEN [ok |-> TRUE, into |-> elem]
            ELSE IF IsPanic(SetTo(Elem(into.typ), elem)) THEN [ok |-> FALSE, into |-> into]
            ELSE [ok |-> TRUE, into |-> [into EXCEPT !.val = Append(@, elem)]]
      [] Kind(into.typ) = "Array" ->
            IF i >= TypeLen(into.typ) \/ IsPanic(SetTo(Elem(into.typ), elem))
            THEN [ok |-> FALSE, into |-> into]
            ELSE [ok |-> TRUE, into |-> [into EXCEPT !.val[i + 1] = elem]]
      [] Kind(into.typ) = "Ptr" ->
            IF Kind(elem.typ) = "Ptr"
            THEN IF IsPanic(SetTo(into.typ, elem)) THEN [ok |-> FALSE, into |-> into]
                 ELSE [ok |-> TRUE, into |-> elem]
            ELSE IF IsPanic(SetTo(Elem(into.typ), elem))
                 THEN [ok |-> FALSE, into |-> ReflectNew(Elem(into.typ))]
                 ELSE [ok |-> TRUE, into |-> PtrVal(into.typ, elem)]
      [] OTHER ->
            IF IsPanic(SetTo(into.typ, elem)) THEN [ok |-> FALSE, into |-> into]
            ELSE [ok |-> TRUE, into |-> elem]

AbsorbUnwrap(values) ==
    /\ UNCHANGED <<heap, thread>>
    /\ pc = "idle"
    /\ LET built == IF builder = NoBuilder THEN Panic ELSE element(builder, values)
           elem == IF unwrap /\ ~IsPanic(built) THEN Indirect(built) ELSE built
           r == acceptUnwrap(setVal, elem, idx)
       IN  IF IsPanic(built) THEN Fails("Absorb", Panic)
           ELSE IF idx > 0 /\ Len(builder.Keys) = 0 THEN Fails("Absorb", elem)
           ELSE IF Kind(setVal.typ) = "Chan" THEN Send(elem)
           ELSE IF ~r.ok
           THEN /\ setVal' = r.into
                /\ last' = Call("Absorb", FALSE, elem)
                /\ UNCHANGED <<idx, builder, unwrap, cachedAbsorbers, chanVars, hist, opened>>
           ELSE /\ setVal' = r.into
                /\ idx' = idx + 1
                /\ hist' = Append(hist, elem)
                /\ last' = Call("Absorb", TRUE, elem)
                /\ UNCHANGED <<builder, unwrap, cachedAbsorbers, chanVars, opened>>

InitUnwrap == InitSession(DstTypesUnwrap)

NextUnwrap ==
    \/ \E a \in OpenArgsUnwrap, count \in Counts : OpenUnwrap(a.tag, count, a.keys)
    \/ \E values \in RowsUnwrap : Room /\ AbsorbUnwrap(values)
    \/ Close

SpecUnwrap == InitUnwrap /\ [][NextUnwrap]_vars

(***************************************************************************)
(* Pointers with identity: a pointer holds an address of `heap`, so that a *)
(* pointer stored as it is can be told from a pointer to a copy (the       *)
(* session of part_003 with the builder of src/elements.go).               *)
(***************************************************************************)
\* a non-nil pointer of type t to the storage at address a
RefVal(t, a) == [typ |-> t, val |-> <<a>>]

\* reflect.Indirect where pointers hold addresses of h
Deref(h, v) ==
    IF Kind(v.typ) = "Ptr"
    THEN IF v.val = << >> THEN NilVal ELSE h[v.val[1]]
    ELSE v

\* _assign(dst, src) for a slot of type dstType: whether it returned, what the
\* slot holds afterwards, and the storage afterwards
assignAt(h, dstType, src) ==
    IF src.typ = dstType \/ AssignableTo(src.typ, dstType)
    THEN [ok |-> TRUE, val |-> src, heap |-> h]
    ELSE LET srcIsPtr == Kind(src.typ) = "Ptr"
             srcType == IF srcIsPtr THEN Elem(src.typ) ELSE src.typ
             src1 == IF srcIsPtr THEN Deref(h, src) ELSE src
         IN  IF Kind(dstType) = "Ptr"
             THEN LET a == Len(h) + 1
                      inner == IF AssignableTo(srcType, Elem(dstType))
                               THEN SetTo(Elem(dstType), src1)
                               ELSE Convert(src1, Elem(dstType))
                  IN  IF IsPanic(inner)
                      THEN [ok |-> FALSE, val |-> RefVal(dstType, a),
                            heap |-> Append(h, Zero(Elem(dstType)))]
                      ELSE [ok |-> TRUE, val |-> RefVal(dstType, a),
                            heap |-> Append(h, inner)]
             ELSE LET c == Convert(src1, dstType)
                  IN  [ok |-> ~IsPanic(c), val |-> c, heap |-> h]

RECURSIVE elementStructAt(_, _, _, _, _)
\* element, case reflect.Struct, after Fields[1..n]: the record under
\* construction is the storage at address s
elementStructAt(h, s, a, values, n) ==
    IF n = 0 THEN [ok |-> TRUE, heap |-> h]
    ELSE LET r == elementStructAt(h, s, a, values, n - 1)
         IN  IF ~r.ok THEN r
             ELSE IF n > Len(values) THEN [ok |-> FALSE, heap |-> r.heap]
             ELSE IF ~IsValid(values[n]) THEN r
             ELSE IF a.Fields[n].Index = 0 \/ ~CanSet(a.Fields[n])
             THEN [ok |-> FALSE, heap |-> r.heap]
             ELSE LET f == assignAt(r.heap, a.Fields[n].Type, values[n])
                  IN  [ok |-> f.ok,
                       heap |-> [f.heap EXCEPT ![s].val[a.Fields[n].Index] = f.val]]

RECURSIVE elementMapAt(_, _, _, _)
\* element, case reflect.Map, after values[1..n]: whether the loop got there,
\* the entries set, and the storage afterwards
elementMapAt(h, a, values, n) ==
    IF n = 0 THEN [ok |-> TRUE, m |-> [x \in {} |-> NilVal], heap |-> h]
    ELSE LET r == elementMapAt(h, a, values, n - 1)
         IN  IF ~r.ok THEN r
             ELSE IF n > Len(a.Keys) THEN [r EXCEPT !.ok = FALSE]
             ELSE IF ~IsValid(values[n]) THEN r
             ELSE LET mapVal == assignAt(r.heap, Elem(a.Type), values[n])
                  IN  [ok |-> mapVal.ok, m |-> MapPut(r.m, a.Keys[n], mapVal.val),
                       heap |-> mapVal.heap]

\* elementBuilder.element, cases reflect.Struct and default: whether it
\* returned, the reflect.Value returned and the storage afterwards
elementAt(h, a, values) ==
    IF Kind(a.Type) = "Struct"
    THEN LET s == Len(h) + 1
             r == elementStructAt(Append(h, Zero(a.Type)), s, a, values, Len(a.Fields))
         IN  [ok |-> r.ok, val |-> RefVal(PtrTo(a.Type), s), heap |-> r.heap]
    ELSE IF Len(values) = 0 THEN [ok |-> TRUE, val |-> NilVal, heap |-> h]
    ELSE IF Len(values) > 1 \/ ~IsValid(values[1])
    THEN [ok |-> FALSE, val |-> Panic, heap |-> h]
    ELSE IF values[1].typ = a.Type \/ values[1].typ = PtrTo(a.Type)
    THEN [ok |-> TRUE, val |-> values[1], heap |-> h]
    ELSE LET d == Len(h) + 1
             r == assignAt(Append(h, Zero(a.Type)), a.Type, values[1])
         IN  [ok |-> r.ok, val |-> RefVal(PtrTo(a.Type), d),
              heap |-> [r.heap EXCEPT ![d] = r.val]]

\* element that builds every map in the storage of the first one
elementReused(h, a, values) ==
    LET r == elementMapAt(h, a, values, Len(values))
        old == {i \in 1..Len(h) : h[i].typ = a.Type}
        s == IF old = {} THEN Len(r.heap) + 1 ELSE CHOOSE i \in old : \A j \in old : i <= j
    IN  IF Kind(a.Type) /= "Map" THEN elementAt(h, a, values)
        ELSE IF ~r.ok THEN [ok |-> FALSE, val |-> Panic, heap |-> r.heap]
        ELSE [ok |-> TRUE, val |-> RefVal(a.Type, s),
              heap |-> IF old = {} THEN Append(r.heap, [typ |-> a.Type, val |-> r.m])
                       ELSE [r.heap EXCEPT ![s] = [typ |-> a.Type, val |-> r.m]]]

\* elementBuilder.element with a map value as the address of its entries
elementFresh(h, a, values) ==
    IF Kind(a.Type) = "Map"
    THEN LET r == elementMapAt(h, a, values, Len(values))
         IN  IF ~r.ok THEN [ok |-> FALSE, val |-> Panic, heap |-> r.heap]
             ELSE [ok |-> TRUE, val |-> RefVal(a.Type, Len(r.heap) + 1),
                   heap |-> Append(r.heap, [typ |-> a.Type, val |-> r.m])]
    ELSE elementAt(h, a, values)

\* accept for a single-valued destination: whether it returned, what the
\* destination holds afterwards, and the storage afterwards
acceptAt(h, into, elem, i) ==
    IF Kind(into.typ) = "Ptr"
    THEN IF Kind(elem.typ) = "Ptr"
         THEN IF IsPanic(SetTo(into.typ, elem))
              THEN [ok |-> FALSE, into |-> into, heap |-> h]
              ELSE [ok |-> TRUE, into |-> elem, heap |-> h]
         ELSE LET a == Len(h) + 1
              IN  IF IsPanic(SetTo(Elem(into.typ), elem))
                  THEN [ok |-> FALSE, into |-> RefVal(into.typ, a),
                        heap |-> Append(h, Zero(Elem(into.typ)))]
                  ELSE [ok |-> TRUE, into |-> RefVal(into.typ, a),
                        heap |-> Append(h, elem)]
    ELSE IF IsPanic(SetTo(into.typ, elem))
         THEN [ok |-> FALSE, into |-> into, heap |-> h]
         ELSE [ok |-> TRUE, into |-> elem, heap |-> h]

\* the caller's variables strVal, expect and x, at addresses 1, 2 and 3
CallerHeap == <<StrV(<<2>>), IntV(2), IntV(3)>>

\* the destinations: var dst *int (nil, or &x), int, and the two record types
RefDst ==
    {NilPtr("*int"), RefVal("*int", 3), Zero("int"),
     Zero("StructWithPointerMember"), Zero("TestDst")}

RefArgs ==
    { [tag |-> "", keys |-> << >>], [tag |-> "", keys |-> <<"Value">>],
      [tag |-> "", keys |-> <<"Name">>], [tag |-> "", keys |-> <<"Actual">>] }

\* what the caller passes: values, &strVal, &expect, and nil pointers
RefVals ==
    {NilVal, IntV(1), Int32V(1), StrV(<<1>>), Zero("TestDst"),
     RefVal("*string", 1), RefVal("*int", 2), NilPtr("*int"), NilPtr("*string")}

RefRows == UNION {[1..n -> RefVals] : n \in 0..1}

RefRoom == idx < MaxRows /\ Len(heap) + 2 <= MaxAddr

AbsorbRef(values) ==
    /\ pc = "idle"
    /\ builder /= NoBuilder
    /\ UNCHANGED thread
    /\ LET built == elementAt(heap, builder, values)
           elem == IF unwrap THEN Deref(built.heap, built.val) ELSE built.val
           r == acceptAt(built.heap, setVal, elem, idx)
       IN  IF ~built.ok THEN Fails("Absorb", Panic) /\ heap' = heap
           ELSE IF idx > 0 /\ Len(builder.Keys) = 0
           THEN Fails("Absorb", elem) /\ heap' = heap
           ELSE IF ~r.ok
           THEN /\ setVal' = r.into
                /\ heap' = r.heap
                /\ last' = Call("Absorb", FALSE, elem)
                /\ UNCHANGED <<idx, builder, unwrap, cachedAbsorbers, chanVars, hist, opened>>
           ELSE /\ setVal' = r.into
                /\ heap' = r.heap
                /\ idx' = idx + 1
                /\ hist' = Append(hist, elem)
                /\ last' = Call("Absorb", TRUE, elem)
                /\ UNCHANGED <<builder, unwrap, cachedAbsorbers, chanVars, opened>>

InitRef ==
    /\ setVal \in RefDst
    /\ heap = CallerHeap
    /\ idx = 0
    /\ builder = NoBuilder
    /\ unwrap = FALSE
    /\ cachedAbsorbers = [k \in {} |-> NoBuilder]
    /\ chanCap = 0
    /\ chanBuf = << >>
    /\ chanClosed = FALSE
    /\ received = << >>
    /\ pc = "idle"
    /\ pending = NilVal
    /\ hist = << >>
    /\ opened = FALSE
    /\ thread = << >>
    /\ last = NoCall

NextRef ==
    \/ \E a \in RefArgs : OpenUnwrap(a.tag, 1, a.keys)
    \/ \E values \in RefRows : RefRoom /\ AbsorbRef(values)
    \/ Close

SpecRef == InitRef /\ [][NextRef]_vars

(***************************************************************************)
(* The plan cache under concurrent Opens.  Each goroutine has a session of *)
(* its own and runs getBuilder one sync.Map operation at a time.  A        *)
(* *sync.Map, an *elementBuilder and the backing array of a caller's keys  *)
(* are addresses of `heap`; cachedAbsorbers maps a type to the address of  *)
(* its map of plans.                                                       *)
(***************************************************************************)
Threads == 1..MaxThreads

CacheTypes == {"map[string]int", "TestDst"}

\* what the key slice of a caller may hold
KeySeqs == {<<"Name">>, <<"Actual">>}

\* sync.Map.LoadOrStore that stores over an entry already there
LoadOrStoreOver(m, k, v) == [actual |-> v, m |-> MapPut(m, k, v)]

\* sync.Map.LoadOrStore: the value now under k, and the map afterwards
LoadOrStore(m, k, v) ==
    IF k \in DOMAIN m THEN [actual |-> m[k], m |-> m]
    ELSE [actual |-> v, m |-> MapPut(m, k, v)]

\* what the storage holds: the backing array of a key slice, a sync.Map, a plan
KeysCell(k) == [typ |-> "[]string", val |-> k]
MapCell(m) == [typ |-> "sync.Map", val |-> m]
PlanCell(b) == [typ |-> "elementBuilder", val |-> b]

\* the plan at address p, its Keys read through the slice it holds
PlanAt(h, p) == [h[p].val EXCEPT !.Keys = h[h[p].val.Keys].val]

IdleThread(k) ==
    [pc |-> "idle", typ |-> "", tag |-> "", keys |-> k, compoundKey |-> "",
     absorbers |-> 0, toPut |-> 0, builder |-> 0]

SessionFixed ==
    /\ UNCHANGED <<setVal, idx, builder, unwrap, chanVars, hist, opened, last>>

\* Open up to the call of getBuilder, with the caller's key slice (keys...)
OpenCall(g, t, tag) ==
    /\ thread[g].pc = "idle"
    /\ thread' = [thread EXCEPT ![g].pc = "loadType", ![g].typ = t, ![g].tag = tag,
                                ![g].compoundKey = "", ![g].absorbers = 0,
                                ![g].toPut = 0]
    /\ UNCHANGED <<heap, cachedAbsorbers>>
    /\ SessionFixed

\* getBuildersForType: cachedAbsorbers.Load(t)
LoadType(g) ==
    /\ thread[g].pc = "loadType"
    /\ thread' = IF thread[g].typ \in DOMAIN cachedAbsorbers
                 THEN [thread EXCEPT ![g].pc = "loadPlan",
                                     ![g].absorbers = cachedAbsorbers[thread[g].typ]]
                 ELSE [thread EXCEPT ![g].pc = "storeType"]
    /\ UNCHANGED <<heap, cachedAbsorbers>>
    /\ SessionFixed

\* getBuildersForType: cachedAbsorbers.LoadOrStore(t, &sync.Map{})
StoreType(g) ==
    /\ thread[g].pc = "storeType"
    /\ Len(heap) < MaxAddr
    /\ LET fresh == Len(heap) + 1
           r == LoadOrStore(cachedAbsorbers, thread[g].typ, fresh)
       IN  /\ heap' = Append(heap, MapCell([k \in {} |-> 0]))
           /\ cachedAbsorbers' = r.m
           /\ thread' = [thread EXCEPT ![g].pc = "loadPlan", ![g].absorbers = r.actual]
    /\ SessionFixed

\* getBuilder: compoundKey, then absorbers.Load(compoundKey)
LoadPlan(g) ==
    /\ thread[g].pc = "loadPlan"
    /\ LET k == compoundKey(thread[g].tag, heap[thread[g].keys].val)
           m == heap[thread[g].absorbers].val
       IN  thread' = IF k \in DOMAIN m
                     THEN [thread EXCEPT ![g].pc = "idle", ![g].compoundKey = k,
                                         ![g].absorbers = 0, ![g].builder = m[k]]
                     ELSE [thread EXCEPT ![g].pc = "build", ![g].compoundKey = k]
    /\ UNCHANGED <<heap, cachedAbsorbers>>
    /\ SessionFixed

\* getBuilder: toPut := newBuilder(elemTyp, tag, keys); the plan keeps the
\* slice it was given (Keys: keys)
Build(g) ==
    /\ thread[g].pc = "build"
    /\ Len(heap) < MaxAddr
    /\ LET b == newBuilder(thread[g].typ, thread[g].tag, heap[thread[g].keys].val)
       IN  heap' = Append(heap, PlanCell([b EXCEPT !.Keys = thread[g].keys]))
    /\ thread' = [thread EXCEPT ![g].pc = "storePlan", ![g].toPut = Len(heap) + 1]
    /\ UNCHANGED cachedAbsorbers
    /\ SessionFixed

\* getBuilder: absorbers.LoadOrStore(compoundKey, toPut), and Open's
\* a.builder = the plan returned
StorePlan(g) ==
    /\ thread[g].pc = "storePlan"
    /\ LET r == LoadOrStore(heap[thread[g].absorbers].val, thread[g].compoundKey,
                            thread[g].toPut)
       IN  /\ heap' = [heap EXCEPT ![thread[g].absorbers].val = r.m]
           /\ thread' = [thread EXCEPT ![g].pc = "idle", ![g].absorbers = 0,
                                       ![g].toPut = 0, ![g].builder = r.actual]
    /\ UNCHANGED cachedAbsorbers
    /\ SessionFixed

\* Close of the session of g: a.builder = nil
CloseCall(g) ==
    /\ thread[g].pc = "idle" /\ thread[g].builder /= 0
    /\ thread' = [thread EXCEPT ![g] = IdleThread(thread[g].keys)]
    /\ UNCHANGED <<heap, cachedAbsorbers>>
    /\ SessionFixed

\* the caller of g overwrites the key slice it had passed to Open
CallerSetsKeys(g, k) ==
    /\ thread[g].pc = "idle"
    /\ heap[thread[g].keys].val /= k
    /\ heap' = [heap EXCEPT ![thread[g].keys].val = k]
    /\ UNCHANGED <<thread, cachedAbsorbers>>
    /\ SessionFixed

InitCache ==
    /\ setVal = NilVal
    /\ idx = 0
    /\ builder = NoBuilder
    /\ unwrap = FALSE
    /\ cachedAbsorbers = [k \in {} |-> 0]
    /\ chanCap = 0
    /\ chanBuf = << >>
    /\ chanClosed = FALSE
    /\ received = << >>
    /\ pc = "idle"
    /\ pending = NilVal
    /\ hist = << >>
    /\ opened = FALSE
    /\ heap \in [Threads -> {KeysCell(k) : k \in KeySeqs}]
    /\ thread = [g \in Threads |-> IdleThread(g)]
    /\ last = NoCall

\* the callers leave the slices they passed to Open alone
NextCache ==
    \/ \E g \in Threads, t \in CacheTypes : OpenCall(g, t, "")
    \/ \E g \in Threads : LoadType(g)
    \/ \E g \in Threads : StoreType(g)
    \/ \E g \in Threads : LoadPlan(g)
    \/ \E g \in Threads : Build(g)
    \/ \E g \in Threads : StorePlan(g)
    \/ \E g \in Threads : CloseCall(g)

SpecCache == InitCache /\ [][NextCache]_vars

\* the callers may also overwrite them between calls
NextCacheKeys ==
    \/ NextCache
    \/ \E g \in Threads, k \in KeySeqs : CallerSetsKeys(g, k)

SpecCacheKeys == InitCache /\ [][NextCacheKeys]_vars

(***************************************************************************)
(* Keys that contain the separator of the compound cache key (the session  *)
(* of part_003).                                                           *)
(***************************************************************************)
SepTypes == {"map[string]int", "TestDst"}

SepArgs ==
    { [tag |-> "",     keys |-> <<"Name", "Actual">>],
      [tag |-> "",     keys |-> <<"Name+Actual">>],
      [tag |-> "",     keys |-> <<"Name">>],
      [tag |-> "test", keys |-> <<"Name">>] }

InitSep == InitSession(SepTypes)

NextSep ==
    \/ \E a \in SepArgs, count \in Counts : OpenUnwrap(a.tag, count, a.keys)
    \/ \E values \in RowsUnwrap : Room /\ AbsorbUnwrap(values)
    \/ Close

SpecSep == InitSep /\ [][NextSep]_vars

(***************************************************************************)
(* Records in which the annotation of one field is the name of another     *)
(* (the session of part_003).                                              *)
(***************************************************************************)
ClashTypes == {"TagFirst", "TagLast", "TagCase"}

ClashArgs ==
    {[tag |-> g, keys |-> <<k>>] : g \in Tags, k \in {"Name", "name", "Actual"}}

InitClash == InitSession(ClashTypes)

NextClash ==
    \/ \E a \in ClashArgs, count \in Counts : OpenUnwrap(a.tag, count, a.keys)
    \/ \E values \in RowsUnwrap : Room /\ AbsorbUnwrap(values)
    \/ Close

SpecClash == InitClash /\ [][NextClash]_vars

(***************************************************************************)
(* Absorb calls of several goroutines on one open session of               *)
(* src/absorb.go.  The reads and writes of a.setVal and a.idx are steps of *)
(* their own, so that calls may interleave between them.                   *)
(***************************************************************************)
RaceDst == {[typ |-> "[]int", val |-> << >>], Zero(ArrayInt)}

RaceRows == {<<IntV(1)>>, <<IntV(2)>>}

\* the locals of a goroutine: elem, the idx passed to accept, the slice that
\* Append returned, the idx read by a.idx++; raced is a ghost: the call ran
\* while another call was running
IdleCall(raced) ==
    [pc |-> "idle", elem |-> NilVal, i |-> 0, sl |-> << >>, n |-> 0, raced |-> raced]

Busy(g) == thread[g].pc /= "idle"

\* calls begun and not failed
Begun == Len(hist) + Cardinality({g \in Threads : Busy(g)})

RaceFixed == UNCHANGED <<builder, unwrap, cachedAbsorbers, chanVars, opened, heap>>

\* Absorb up to the call of accept: elem := a.builder.element(values), and
\* the arguments a.setVal, elem, a.idx
AbsorbBegin(g, values) ==
    /\ ~Busy(g) /\ Begun < MaxRows
    /\ LET elem == elementSet(builder, values)
           others == {h \in Threads : h /= g /\ Busy(h)}
       IN  thread' = [h \in Threads |->
                        IF h = g
                        THEN [pc |-> "accept", elem |-> elem, i |-> idx, sl |-> << >>,
                              n |-> 0, raced |-> thread[g].raced \/ others /= {}]
                        ELSE IF h \in others THEN [thread[h] EXCEPT !.raced = TRUE]
                        ELSE thread[h]]
    /\ UNCHANGED <<setVal, idx, hist, last>>
    /\ RaceFixed

\* accept, case reflect.Slice: sl := reflect.Append(into, elem)
AppendRead(g) ==
    /\ thread[g].pc = "accept" /\ Kind(setVal.typ) = "Slice"
    /\ thread' = [thread EXCEPT ![g].pc = "set",
                                ![g].sl = Append(setVal.val, thread[g].elem)]
    /\ UNCHANGED <<setVal, idx, hist, last>>
    /\ RaceFixed

\* accept, case reflect.Slice: into.Set(sl)
SetSlice(g) ==
    /\ thread[g].pc = "set"
    /\ setVal' = [setVal EXCEPT !.val = thread[g].sl]
    /\ thread' = [thread EXCEPT ![g].pc = "inc"]
    /\ UNCHANGED <<idx, hist, last>>
    /\ RaceFixed

\* accept, case reflect.Array: into.Index(idx).Set(elem), or a panic
SetIndex(g) ==
    /\ thread[g].pc = "accept" /\ Kind(setVal.typ) = "Array"
    /\ IF thread[g].i >= TypeLen(setVal.typ)
       THEN /\ thread' = [thread EXCEPT ![g] = IdleCall(thread[g].raced)]
            /\ last' = Call("Absorb", FALSE, thread[g].elem)
            /\ UNCHANGED setVal
       ELSE /\ setVal' = [setVal EXCEPT !.val[thread[g].i + 1] = thread[g].elem]
            /\ thread' = [thread EXCEPT ![g].pc = "inc"]
            /\ UNCHANGED last
    /\ UNCHANGED <<idx, hist>>
    /\ RaceFixed

\* a.idx++ that writes back the value it read
IncWriteStale(g) ==
    /\ thread[g].pc = "incw"
    /\ idx' = thread[g].n
    /\ hist' = Append(hist, thread[g].elem)
    /\ last' = Call("Absorb", TRUE, thread[g].elem)
    /\ thread' = [thread EXCEPT ![g] = IdleCall(thread[g].raced)]
    /\ UNCHANGED setVal
    /\ RaceFixed

\* a.idx++: the read
IncRead(g) ==
    /\ thread[g].pc = "inc"
    /\ thread' = [thread EXCEPT ![g].pc = "incw", ![g].n = idx]
    /\ UNCHANGED <<setVal, idx, hist, last>>
    /\ RaceFixed

\* a.idx++: the write, and the return of Absorb
IncWrite(g) ==
    /\ thread[g].pc = "incw"
    /\ idx' = thread[g].n + 1
    /\ hist' = Append(hist, thread[g].elem)
    /\ last' = Call("Absorb", TRUE, thread[g].elem)
    /\ thread' = [thread EXCEPT ![g] = IdleCall(thread[g].raced)]
    /\ UNCHANGED setVal
    /\ RaceFixed

\* the session after New and Open("", -1) with no keys
InitRace ==
    /\ setVal \in RaceDst
    /\ idx = 0
    /\ builder = newBuilderTag(Elem(setVal.typ), "", << >>)
    /\ unwrap = FALSE
    /\ cachedAbsorbers = [k \in {<<Elem(setVal.typ), ":">>} |-> builder]
    /\ chanCap = 0
    /\ chanBuf = << >>
    /\ chanClosed = FALSE
    /\ received = << >>
    /\ pc = "idle"
    /\ pending = NilVal
    /\ hist = << >>
    /\ opened = TRUE
    /\ heap = << >>
    /\ thread = [g \in Threads |-> IdleCall(FALSE)]
    /\ last = [op |-> "Open", ok |-> TRUE, idx0 |-> 0, elem |-> NilVal]

NextRace ==
    \/ \E g \in Threads, values \in RaceRows : AbsorbBegin(g, values)
    \/ \E g \in Threads : AppendRead(g)
    \/ \E g \in Threads : SetSlice(g)
    \/ \E g \in Threads : SetIndex(g)
    \/ \E g \in Threads : IncRead(g)
    \/ \E g \in Threads : IncWrite(g)

SpecRace == InitRace /\ [][NextRace]_vars

(***************************************************************************)
(* Several sessions of src/absorb.go that build their elements with element *)
(* of src/elements.go and share the plans of one cache.  Session g is        *)
(* thread[g]: its setVal, idx and builder, and what it has sent on its       *)
(* queue; maps and pointers are addresses of `heap`.                         *)
(***************************************************************************)
\* var dst []map[string]int, []*int, [N]int, and make(chan int, MaxRows)
FreshDst == {Zero("[]map[string]int"), Zero("[]*int"), Zero(ArrayInt), Zero("chan int")}

FreshKeys == {<<"Name">>, <<"Name", "Actual">>}

FreshCounts == {MaxRows}

\* what the producers pass: values, nil, and &expect
FreshVals == {NilVal, IntV(1), RefVal("*int", 2)}

FreshRows == UNION {[1..n -> FreshVals] : n \in 0..MaxVals}

\* New
FreshSession(dst) == [setVal |-> dst, idx |-> 0, builder |-> NoBuilder, sent |-> << >>]

FreshFixed == UNCHANGED <<setVal, idx, builder, unwrap, chanVars, hist, opened>>

\* Open, before the first row of the session
OpenFresh(g, count, keys) ==
    /\ thread[g].idx = 0
    /\ LET r == OpenSwitch(thread[g].setVal, count)
           b == getBuilder(cachedAbsorbers, r.elemTyp, "", keys,
                           newBuilder(r.elemTyp, "", keys))
       IN  IF r.ok
           THEN /\ thread' = [thread EXCEPT ![g].setVal = r.setVal, ![g].idx = 0,
                                            ![g].builder = b.plan]
                /\ cachedAbsorbers' = b.cache
                /\ last' = [op |-> "Open", ok |-> TRUE, idx0 |-> thread[g].idx,
                            elem |-> NilVal]
           ELSE /\ last' = [op |-> "Open", ok |-> FALSE, idx0 |-> thread[g].idx,
                            elem |-> NilVal]
                /\ UNCHANGED <<thread, cachedAbsorbers>>
    /\ UNCHANGED heap
    /\ FreshFixed

\* Absorb; the storage a panicking call allocated is referred to by nothing
\* and is left out
AbsorbFresh(g, values) ==
    /\ thread[g].builder /= NoBuilder
    /\ LET a == thread[g]
           built == elementFresh(heap, a.builder, values)
           isChan == Kind(a.setVal.typ) = "Chan"
           r == IF ~built.ok THEN Panic
                ELSE IF isChan THEN SetTo(Elem(a.setVal.typ), built.val)
                ELSE accept(a.setVal, built.val, a.idx)
       IN  IF IsPanic(r)
           THEN /\ last' = [op |-> "Absorb", ok |-> FALSE, idx0 |-> a.idx,
                            elem |-> NilVal]
                /\ UNCHANGED <<thread, heap>>
           ELSE /\ thread' = [thread EXCEPT
                                ![g].setVal = IF isChan THEN a.setVal ELSE r,
                                ![g].sent = IF isChan THEN Append(a.sent, r) ELSE a.sent,
                                ![g].idx = a.idx + 1]
                /\ heap' = built.heap
                /\ last' = [op |-> "Absorb", ok |-> TRUE, idx0 |-> a.idx,
                            elem |-> NilVal]
    /\ UNCHANGED cachedAbsorbers
    /\ FreshFixed

FreshRoom(g) == thread[g].idx < MaxRows /\ Len(heap) < MaxAddr

InitFresh ==
    /\ thread \in [Threads -> {FreshSession(d) : d \in FreshDst}]
    /\ heap = CallerHeap
    /\ setVal = NilVal
    /\ idx = 0
    /\ builder = NoBuilder
    /\ unwrap = FALSE
    /\ cachedAbsorbers = [k \in {} |-> NoBuilder]
    /\ chanCap = 0
    /\ chanBuf = << >>
    /\ chanClosed = FALSE
    /\ received = << >>
    /\ pc = "idle"
    /\ pending = NilVal
    /\ hist = << >>
    /\ opened = FALSE
    /\ last = NoCall

NextFresh ==
    \/ \E g \in Threads, count \in FreshCounts, keys \in FreshKeys : OpenFresh(g, count, keys)
    \/ \E g \in Threads, values \in FreshRows : FreshRoom(g) /\ AbsorbFresh(g, values)

SpecFresh == InitFresh /\ [][NextFresh]_vars

(***************************************************************************)
(* Byte buffers and other growable sequences, opened with and without keys *)
(* (the session of part_003).                                              *)
(***************************************************************************)
BytesTypes == {"[]byte", "[]int"}

BytesArgs == { [tag |-> "", keys |-> << >>], [tag |-> "", keys |-> <<"Name">>] }

BytesVals == {ByteV(1), Blob(<<1, 2>>), IntV(1), [typ |-> "[]int", val |-> <<IntV(1)>>]}

BytesRows == UNION {[1..n -> BytesVals] : n \in 0..MaxVals}

InitBytes == InitSession(BytesTypes)

NextBytes ==
    \/ \E a \in BytesArgs, count \in Counts : OpenUnwrap(a.tag, count, a.keys)
    \/ \E values \in BytesRows : Room /\ AbsorbUnwrap(values)
    \/ Close

SpecBytes == InitBytes /\ [][NextBytes]_vars

(***************************************************************************)
(* Plan construction and binding of one row: a record destination opened   *)
(* once, with every tag and every key sequence of up to two keys.          *)
(***************************************************************************)
PlanTypes == {"TestDst", "Tagged", "Folded", "Lower"}

PlanKeys == {"Name", "name", "NAME", "Actual", "actual", "Aliased", "Hidden", "hidden", "Bogus"}

PlanArgs ==
    {[tag |-> g, keys |-> k] :
        g \in Tags,
        k \in {<< >>} \cup {<<k1>> : k1 \in PlanKeys}
                     \cup {<<k1, k2>> : k1 \in PlanKeys, k2 \in PlanKeys}}

PlanVals == Vals \cup {StrV(<<2>>)}

PlanRows == UNION {[1..n -> PlanVals] : n \in 0..MaxVals}

InitPlan == InitSession(PlanTypes)

NextPlan ==
    \/ \E a \in PlanArgs, count \in Counts : ~opened /\ OpenUnwrap(a.tag, count, a.keys)
    \/ \E values \in PlanRows : idx = 0 /\ AbsorbUnwrap(values)
    \/ Close

SpecPlan == InitPlan /\ [][NextPlan]_vars

(***************************************************************************)
(* New as a step: the session of src/absorb.go from its construction.      *)
(***************************************************************************)
\* what a caller may pass to New: nil, plain values, a nil pointer, a
\* receive-only channel, pointers to the destinations of Spec, a channel
NewArgs ==
    {NilVal, IntV(0), Zero("TestDst"), NilPtr("*int"), Zero("<-chan int")}
    \cup UNION {{PtrVal(PtrTo(t), v) : v \in InitialDst(t)} :
                   t \in DstTypes \ {"chan int"}}
    \cup InitialDst("chan int")

New(dst, cap) ==
    /\ UNCHANGED <<heap, thread>>
    /\ pc = "new"
    /\ LET ok == \/ Kind(dst.typ) = "Ptr"
                 \/ Kind(dst.typ) = "Chan" /\ ChanDir(dst.typ) /= "RecvDir"
       IN  IF ok
           THEN /\ setVal' = IF Kind(dst.typ) = "Ptr" THEN Indirect(dst) ELSE dst
                /\ chanCap' = IF Kind(dst.typ) = "Chan" THEN cap ELSE 0
                /\ pc' = "idle"
                /\ last' = Call("New", TRUE, NilVal)
           ELSE /\ last' = Call("New", FALSE, NilVal)
                /\ UNCHANGED <<setVal, chanCap, pc>>
    /\ UNCHANGED <<idx, builder, unwrap, cachedAbsorbers, chanBuf, chanClosed,
                   received, pending, hist, opened>>

InitNew ==
    /\ setVal = NilVal
    /\ idx = 0
    /\ builder = NoBuilder
    /\ unwrap = FALSE
    /\ cachedAbsorbers = [k \in {} |-> NoBuilder]
    /\ chanCap = 0
    /\ chanBuf = << >>
    /\ chanClosed = FALSE
    /\ received = << >>
    /\ pc = "new"
    /\ pending = NilVal
    /\ hist = << >>
    /\ opened = FALSE
    /\ heap = << >>
    /\ thread = << >>
    /\ last = [op |-> "", ok |-> TRUE, idx0 |-> 0, elem |-> NilVal]

NextNew ==
    \/ \E dst \in NewArgs, cap \in 0..MaxChanCap : New(dst, cap)
    \/ Next

SpecNew == InitNew /\ [][NextNew]_vars

(***************************************************************************)
(* The top-level call Absorb(dst, src): New(dst), then the producer's Emit  *)
(* drives the session and returns an error value; a panic ends the call.   *)
(***************************************************************************)
\* what Emit may return: nil, or an error of the data source
Errors == {NilVal, [typ |-> "error", val |-> << >>]}

\* the call is inside Emit and no panic is unwinding it
Running == pc /= "new" /\ last.ok /\ last.op /= "Return"

\* a top-level Absorb that wraps a non-nil error of Emit in another error
AbsorbResultWrapped(err) ==
    IF err = NilVal THEN err ELSE [typ |-> "error", val |-> <<err>>]

\* func Absorb: the value returned when Emit returns err
AbsorbResult(err) == err

\* Emit returns err, and with it the top-level call
Return(err) ==
    /\ UNCHANGED <<heap, thread>>
    /\ Running /\ pc = "idle"
    /\ last' = Call("Return", TRUE, AbsorbResult(err))
    /\ UNCHANGED <<setVal, idx, builder, unwrap, cachedAbsorbers, chanVars, hist, opened>>

NextTop ==
    \/ \E dst \in NewArgs, cap \in 0..MaxChanCap : last.op = "" /\ New(dst, cap)
    \/ \E a \in OpenArgs, count \in Counts : Running /\ Open(a.tag, count, a.keys)
    \/ \E values \in Rows : Running /\ Room /\ Absorb(values)
    \/ Running /\ Close
    \/ \E err \in Errors : Return(err)
    \/ Recv

SpecTop == InitNew /\ [][NextTop]_vars

\* the consumer keeps receiving: Recv is taken whenever it stays possible
LiveSpec == Init /\ [][Next]_vars /\ WF_vars(Recv)

(***************************************************************************)
(* Claims about the session of src/absorb.go (Spec, LiveSpec).             *)
(***************************************************************************)
IsSlice == Kind(setVal.typ) = "Slice"
IsArray == Kind(setVal.typ) = "Array"
IsChan == Kind(setVal.typ) = "Chan"
IsSingle == ~IsSlice /\ ~IsArray /\ ~IsChan

\* C1: after Open on a growable sequence, the destination holds exactly the
\* elements of the Absorb calls completed since that Open, in call order
\* (k calls, k elements), whatever it held before Open.
C1_SequenceAccumulation ==
    (IsSlice /\ opened) => (setVal.val = hist /\ Len(setVal.val) = idx)

\* a sequence that held something before Open now holds MaxRows absorbed
\* elements, the first differing from the second
C1_Witness ==
    /\ IsSlice /\ opened
    /\ Len(hist) = MaxRows
    /\ hist[1] /= hist[2]
    /\ setVal.val = hist

\* C2: what the consumer has received, followed by what the queue still
\* buffers, is the sequence of elements of the completed Absorb calls in call
\* order; and only the caller's close, never a step of the engine, closes the
\* queue.
C2_QueueOrderAndNoClose ==
    /\ [](IsChan => received \o chanBuf = hist)
    /\ [][chanClosed' /= chanClosed => CallerClose]_vars

\* the consumer has drained MaxRows elements and the caller has then closed
C2_Witness ==
    /\ IsChan /\ chanClosed
    /\ Len(received) = MaxRows
    /\ received = hist
    /\ received[1] /= received[2]

\* C3: an Absorb that finds the queue unable to take the element completes
\* only in a step in which the consumer receives; while it is blocked the
\* cursor stays; it is blocked only in Send on a full (or unbuffered) queue;
\* and if the consumer keeps receiving, a blocked Absorb returns.
C3_BlockingSend ==
    /\ [][(IsChan /\ Len(hist') > Len(hist) /\ Len(chanBuf) >= chanCap)
            => Len(received') = Len(received) + 1]_vars
    /\ [][(pc = "send" /\ pc' = "send") => idx' = idx]_vars
    /\ [](pc = "send" => (IsChan /\ last.op = "Send" /\ Len(chanBuf) = chanCap))
    /\ [](pc = "idle" =>
            /\ ENABLED Close
            /\ ENABLED (\E a \in OpenArgs, count \in Counts : Open(a.tag, count, a.keys)))
    /\ (pc = "send") ~> (pc = "idle")

\* an Absorb is blocked in Send on a full buffered queue
C3_Witness == pc = "send" /\ chanCap > 0 /\ Len(chanBuf) = chanCap

\* C4: on a fixed-size buffer of capacity N the completed Absorb calls wrote
\* positions 1..idx in call order, and an Absorb call is fatal exactly when its
\* element could not be built or N elements were already written.
C4_FixedBuffer ==
    (IsArray /\ opened) =>
        /\ idx <= ArrayLen
        /\ idx = Len(hist)
        /\ \A j \in 1..idx : setVal.val[j] = hist[j]
        /\ last.op = "Absorb" =>
              (last.ok <=> (last.idx0 < ArrayLen /\ ~IsPanic(last.elem)))

\* the buffer is full of absorbed elements and the next Absorb, whose element
\* was built, has failed
C4_Witness ==
    /\ IsArray /\ idx = ArrayLen
    /\ last.op = "Absorb" /\ ~last.ok /\ ~IsPanic(last.elem)
    /\ last.idx0 = ArrayLen
    /\ setVal.val[1] /= setVal.val[2]

\* what a fixed-size or single-valued destination can hold
Capacity(t) == IF Kind(t) = "Array" THEN TypeLen(t) ELSE 1

\* C5: on a fixed-size buffer or a single-valued destination, Open fails
\* exactly when expectedCount exceeds what the destination can hold.
C5_OpenOvercount ==
    [][\A a \in OpenArgs, count \in Counts :
          ((IsArray \/ IsSingle) /\ Open(a.tag, count, a.keys))
              => (last'.ok <=> count <= Capacity(setVal.typ))]_vars

\* Open has failed on a fixed-size buffer
C5_Witness == IsArray /\ last.op = "Open" /\ ~last.ok

(***************************************************************************)
(* Claims about the session of src/unnamed/part_003 with the element       *)
(* builder of src/elements.go (SpecUnwrap).                                *)
(***************************************************************************)
\* the destination refers to or is the element (a pointer destination is
\* compared through the pointer)
Holds(into, elem) ==
    IF Kind(into.typ) = "Ptr"
    THEN Indirect(into) = (IF Kind(elem.typ) = "Ptr" THEN Indirect(elem) ELSE elem)
    ELSE into = elem

\* C6: on a single-valued destination, with or without keys, the first Absorb
\* after Open writes the value, and an Absorb after it fails and leaves the
\* destination as the first wrote it
C6_SingleWriteOnce ==
    [][(IsSingle /\ \E values \in RowsUnwrap : AbsorbUnwrap(values)) =>
          /\ (idx = 0 /\ last'.ok) => Holds(setVal', last'.elem)
          /\ idx > 0 => (~last'.ok /\ setVal' = setVal)]_vars

\* a second Absorb in the same Open has returned on a single-valued destination
C6_Witness ==
    /\ IsSingle /\ last.op = "Absorb" /\ last.ok /\ last.idx0 = 1
    /\ Len(builder.Keys) > 0

\* C7: Open on a session already opened before sets the cursor to 0 and makes
\* the plan the one for the new tag and keys; on a single-valued destination
\* an Absorb returns only at cursor 0, so exactly one returns per Open
C7_ReopenResets ==
    /\ [][\A a \in OpenArgsUnwrap, count \in Counts :
            (opened /\ OpenUnwrap(a.tag, count, a.keys) /\ last'.ok) =>
                /\ idx' = 0
                /\ builder' = newBuilder(builder'.Type, a.tag, a.keys)]_vars
    /\ [][(IsSingle /\ \E values \in RowsUnwrap : AbsorbUnwrap(values)) =>
            (last'.ok => idx = 0)]_vars

\* the index of the last column in a non-empty set of columns
LastOf(S) == CHOOSE i \in S : \A j \in S : j <= i

\* C8: the keyed-mapping element built from a row contains Keys[i] with the
\* converted i-th value for every present value, and does not contain Keys[i]
\* for every absent one
C8_AbsentValueOmitsKey ==
    [][\A values \in RowsUnwrap :
          (/\ builder /= NoBuilder /\ Kind(builder.Type) = "Map"
           /\ AbsorbUnwrap(values) /\ ~IsPanic(last'.elem)) =>
             \A i \in 1..Len(values) :
                IF IsValid(values[i])
                THEN /\ builder.Keys[i] \in DOMAIN last'.elem.val
                     /\ last'.elem.val[builder.Keys[i]]
                            = assign(Elem(builder.Type), values[i])
                ELSE builder.Keys[i] \notin DOMAIN last'.elem.val]_vars

\* C8 (amended): the keyed-mapping element contains a key exactly when some
\* column declared under that key has a present value, and then holds the
\* converted value of the last such column
C8_AbsentValueOmitsKeyLastWins ==
    [][\A values \in RowsUnwrap :
          (/\ builder /= NoBuilder /\ Kind(builder.Type) = "Map"
           /\ AbsorbUnwrap(values) /\ ~IsPanic(last'.elem)) =>
             LET m == last'.elem.val
                 present(k) == {i \in 1..Len(values) :
                                   builder.Keys[i] = k /\ IsValid(values[i])}
             IN  /\ Len(values) <= Len(builder.Keys)
                 /\ DOMAIN m = {builder.Keys[i] : i \in {j \in 1..Len(values) : IsValid(values[j])}}
                 /\ \A k \in DOMAIN m :
                       m[k] = assign(Elem(builder.Type), values[LastOf(present(k))])]_vars

\* a row whose first value is absent and whose second is present was written
\* to a mapping destination
C8_Witness ==
    /\ Kind(setVal.typ) = "Map" /\ last.op = "Absorb" /\ last.ok
    /\ builder.Keys = <<"Name", "Bogus">>
    /\ DOMAIN setVal.val = {"Bogus"}

\* C9: a key that matches no field of a record binds to nothing: the row is
\* bound as it would be with that column absent, whatever the column holds
C9_UnmatchedKeyIgnored ==
    [][\A values \in RowsUnwrap :
          (/\ builder /= NoBuilder /\ Kind(builder.Type) = "Struct"
           /\ Len(values) = Len(builder.Keys)
           /\ AbsorbUnwrap(values)) =>
             LET masked == [i \in 1..Len(values) |->
                               IF builder.Fields[i].Index = 0 THEN NilVal ELSE values[i]]
                 usual == element(builder, masked)
             IN  ~IsPanic(usual) =>
                    last'.elem = (IF unwrap THEN Indirect(usual) ELSE usual)]_vars

\* the number of values element expects for a plan that is not a mapping's
Expected(b) == IF Kind(b.Type) = "Struct" THEN Len(b.Keys) ELSE 1

\* C10: Absorb with a number of values other than the plan expects (one for a
\* scalar, the number of keys for a record) fails and appends nothing
C10_CountMismatchFatal ==
    [][\A values \in RowsUnwrap :
          (/\ builder /= NoBuilder /\ Kind(builder.Type) /= "Map"
           /\ Len(values) /= Expected(builder)
           /\ AbsorbUnwrap(values)) =>
             (~last'.ok /\ setVal' = setVal /\ idx' = idx)]_vars

(***************************************************************************)
(* Claims about plan construction and the binding of one row (SpecPlan).   *)
(***************************************************************************)
\* Open with these arguments has just returned and built its plan
Opens(a) ==
    /\ builder'.Keys = a.keys
    /\ \E count \in Counts : OpenUnwrap(a.tag, count, a.keys)
    /\ last'.ok

FirstOf(S) == CHOOSE i \in S : \A j \in S : i <= j

\* C12: a key that no annotation claims binds to the un-annotated field whose
\* name it equals exactly; failing that, to the first field in declaration
\* order whose name equals it ignoring case
C12_NameResolution ==
    [][\A a \in PlanArgs : Opens(a) =>
          \A i \in 1..Len(a.keys) :
             LET fs == StructFields(builder'.Type)
                 k == a.keys[i]
                 named == {n \in 1..Len(fs) : a.tag \notin DOMAIN fs[n].Tags}
                 annot == {n \in 1..Len(fs) \ named :
                              fs[n].Tags[a.tag] \in {k, ToLower(k)}}
                 exact == {n \in named : fs[n].Name = k}
                 fold == {n \in named : ToLower(fs[n].Name) = ToLower(k)}
             IN  annot = {} =>
                    IF exact /= {} THEN builder'.Fields[i] = fs[FirstOf(exact)]
                    ELSE fold /= {} => builder'.Fields[i] = fs[FirstOf(fold)]]_vars

\* the key NAME was resolved on Lower and bound the second of the two fields
\* that match it ignoring case
C12_Witness ==
    /\ builder.Type = "Lower"
    /\ builder.Keys = <<"NAME">>
    /\ builder.Fields = <<LowerFields[2]>>

\* the row's columns each resolved to a field, no two to the same one, and
\* each value has exactly its field's type
ExactRow(b, values) ==
    /\ b /= NoBuilder /\ Kind(b.Type) = "Struct"
    /\ Len(values) = Len(b.Keys)
    /\ \A i \in 1..Len(values) :
          /\ b.Fields[i].Index /= 0
          /\ values[i].typ = b.Fields[i].Type
          /\ \A j \in 1..Len(values) : b.Fields[j].Index = b.Fields[i].Index => j = i

\* the record in which every field a column resolved to holds that column's
\* value and every other field is zero
ReadBack(b, values) ==
    [typ |-> b.Type,
     val |-> [n \in 1..Len(StructFields(b.Type)) |->
                LET cols == {i \in 1..Len(values) : b.Fields[i].Index = n}
                IN  IF cols = {} THEN Zero(StructFields(b.Type)[n].Type)
                    ELSE values[FirstOf(cols)]]]

\* C13: binding a row of values of exactly the fields' types, keyed by
\* distinct fields, into one record succeeds, and reading the fields back
\* gives those values, with zero in the fields no key matched
C13_RoundTrip ==
    [][\A values \in PlanRows :
          (ExactRow(builder, values) /\ idx = 0 /\ AbsorbUnwrap(values)) =>
             (last'.ok /\ setVal' = ReadBack(builder, values))]_vars

\* C13, for exported fields: the same round trip holds when every field a key
\* resolved to is an exported one
C13_RoundTripExported ==
    [][\A values \in PlanRows :
          (/\ ExactRow(builder, values)
           /\ \A i \in 1..Len(values) : CanSet(builder.Fields[i])
           /\ idx = 0 /\ AbsorbUnwrap(values)) =>
             (last'.ok /\ setVal' = ReadBack(builder, values))]_vars

\* a row keyed Name, NAME was bound into a Folded, whose fields are declared
\* NAME, Name: each value is read back from the field of its key
C13_Witness ==
    /\ setVal.typ = "Folded" /\ last.op = "Absorb" /\ last.ok
    /\ builder.Keys = <<"Name", "NAME">>
    /\ setVal.val = <<StrV(<<2>>), StrV(<<1>>)>>

(***************************************************************************)
(* Further claims about the session of src/absorb.go (Spec).               *)
(***************************************************************************)
\* C14: on a growable sequence Open succeeds with every expectedCount, and
\* the state it leaves (so all that later Absorb calls build on) is the same
\* for every expectedCount
C14_CountIsOnlyAHint ==
    [][\A a \in OpenArgs :
          (IsSlice /\ \E count \in Counts : Open(a.tag, count, a.keys)) =>
             /\ last'.ok
             /\ \A count \in Counts : Open(a.tag, count, a.keys)]_vars

\* Open has failed on a growable sequence
C14_Witness == IsSlice /\ last.op = "Open" /\ ~last.ok

\* C15: Close leaves the plan nil and changes nothing else; it can be called
\* and returns in every state in which the session's goroutine can call it,
\* before any Open included; a Close right after a Close changes nothing
C15_CloseReleasesPlan ==
    /\ [][Close => /\ builder' = NoBuilder
                   /\ last'.ok
                   /\ UNCHANGED <<setVal, idx, unwrap, cachedAbsorbers, chanVars>>]_vars
    /\ [](pc = "idle" => ENABLED Close)
    /\ [][(last.op = "Close" /\ Close) => UNCHANGED vars]_vars

\* Close has returned after Absorb calls: cursor, destination and cache stayed
C15_Witness ==
    /\ last.op = "Close" /\ builder = NoBuilder
    /\ idx > 0 /\ IsSlice /\ Len(setVal.val) = idx
    /\ DOMAIN cachedAbsorbers /= {}

\* C16: the session has a plan exactly from a successful Open to the next
\* Close; an Absorb without a plan (never opened, or closed since) fails,
\* builds no element, and leaves destination, cursor and queue as they were
C16_AbsorbNeedsOpen ==
    /\ [](~opened => builder = NoBuilder)
    /\ [][last'.op = "Close" => builder' = NoBuilder]_vars
    /\ [][(builder = NoBuilder /\ builder' /= NoBuilder) =>
             (last'.op = "Open" /\ last'.ok)]_vars
    /\ [][\A values \in Rows :
             (builder = NoBuilder /\ Absorb(values)) =>
                /\ ~last'.ok /\ IsPanic(last'.elem)
                /\ UNCHANGED <<setVal, idx, builder, chanVars, hist>>]_vars

\* an Absorb has failed on a session closed after it had absorbed rows
C16_Witness ==
    /\ last.op = "Absorb" /\ ~last.ok /\ builder = NoBuilder
    /\ opened /\ idx > 0 /\ IsSlice /\ Len(setVal.val) = idx

(***************************************************************************)
(* Claims about New (SpecNew).                                             *)
(***************************************************************************)
\* a non-nil pointer, or a channel that can be sent on
Writable(dst) ==
    \/ Kind(dst.typ) = "Ptr" /\ dst.val /= << >>
    \/ Kind(dst.typ) = "Chan" /\ ChanDir(dst.typ) /= "RecvDir"

\* C17: New fails, returning no session, unless dst is a non-nil pointer or a
\* channel that can be sent on; then it returns a session on the storage
\* pointed to (or on the channel), which it leaves as it was
C17_NewRejectsUnwritable ==
    [][\A dst \in NewArgs, cap \in 0..MaxChanCap : New(dst, cap) =>
          /\ last'.ok <=> Writable(dst)
          /\ last'.ok => /\ pc' = "idle"
                         /\ setVal' = (IF Kind(dst.typ) = "Ptr" THEN dst.val[1] ELSE dst)
          /\ ~last'.ok => pc' = "new"]_vars

\* New has returned a session for a nil pointer: the session has no storage
C17_Witness == last.op = "New" /\ last.ok /\ pc = "idle" /\ ~IsValid(setVal)

(***************************************************************************)
(* Absent values (SpecUnwrap).                                             *)
(***************************************************************************)
\* column i of the row is nil, and so is every column bound to the same field
AbsentField(a, values, i) ==
    /\ a.Fields[i].Index /= 0
    /\ \A j \in 1..Len(values) :
          a.Fields[j].Index = a.Fields[i].Index => ~IsValid(values[j])

\* a row for a record plan whose keys all matched, one value per key
MatchedRow(a, values) ==
    /\ a /= NoBuilder /\ Kind(a.Type) = "Struct"
    /\ Len(values) = Len(a.Fields)
    /\ \A i \in 1..Len(values) : a.Fields[i].Index /= 0

\* the record half of C19: a field whose columns are all nil is zero in the
\* element built, and a row of nothing but nils is bound without a fault
C19_RecordNilKeepsZero ==
    [][\A values \in RowsUnwrap :
          (MatchedRow(builder, values) /\ idx = 0 /\ AbsorbUnwrap(values)) =>
             /\ last'.ok =>
                  \A i \in 1..Len(values) :
                     AbsentField(builder, values, i) =>
                        Indirect(last'.elem).val[builder.Fields[i].Index]
                           = Zero(StructFields(builder.Type)[builder.Fields[i].Index].Type)
             /\ (\A i \in 1..Len(values) : ~IsValid(values[i])) => last'.ok]_vars

\* C19: a nil value is never assigned and never a fault: in a record the
\* field of a nil column stays zero, and Absorb(nil) for a scalar element
\* returns and leaves a single-valued destination as it was
C19_NilNeverAssigned ==
    [][\A values \in RowsUnwrap :
          (builder /= NoBuilder /\ idx = 0 /\ AbsorbUnwrap(values)) =>
             /\ (MatchedRow(builder, values) /\ last'.ok) =>
                  \A i \in 1..Len(values) :
                     AbsentField(builder, values, i) =>
                        Indirect(last'.elem).val[builder.Fields[i].Index]
                           = Zero(StructFields(builder.Type)[builder.Fields[i].Index].Type)
             /\ (Kind(builder.Type) \in {"Int", "String"} /\ values = <<NilVal>>) =>
                  /\ last'.ok
                  /\ IsSingle => setVal' = setVal]_vars

\* a row whose only column is nil was bound into a record: every field is zero
C19_Witness ==
    /\ last.op = "Absorb" /\ last.ok /\ last.idx0 = 0
    /\ builder.Keys = <<"Name">> /\ builder.Type = "TestDst"
    /\ Indirect(last.elem) = Zero("TestDst")

(***************************************************************************)
(* Byte buffers (SpecBytes).                                               *)
(***************************************************************************)
\* the byte half of C20: a []byte opened with no keys takes one blob as its
\* whole value and no second Absorb; opened with a key, it grows by one byte
\* per Absorb
C20_BlobOrBytes ==
    [][\A values \in BytesRows :
          (builder /= NoBuilder /\ setVal.typ = "[]byte" /\ AbsorbUnwrap(values)) =>
             /\ (builder.Keys = << >> /\ idx > 0) => (~last'.ok /\ setVal' = setVal)
             /\ (builder.Keys = << >> /\ idx = 0 /\ Len(values) = 1
                   /\ values[1].typ = "[]byte") =>
                  (last'.ok /\ setVal' = values[1])
             /\ (builder.Keys /= << >> /\ Len(values) = 1 /\ values[1].typ = "uint8") =>
                  (last'.ok /\ setVal'.val = Append(setVal.val, values[1]))]_vars

\* C20: the same for a []byte, and a growable sequence of another element
\* type opened with no keys grows by one element per Absorb
C20_ByteBufferDuality ==
    [][\A values \in BytesRows :
          (builder /= NoBuilder /\ IsSlice /\ AbsorbUnwrap(values)) =>
             /\ (setVal.typ = "[]byte" /\ builder.Keys = << >> /\ idx > 0) =>
                  (~last'.ok /\ setVal' = setVal)
             /\ (setVal.typ = "[]byte" /\ builder.Keys = << >> /\ idx = 0
                   /\ Len(values) = 1 /\ values[1].typ = "[]byte") =>
                  (last'.ok /\ setVal' = values[1])
             /\ (setVal.typ = "[]byte" /\ builder.Keys /= << >>
                   /\ Len(values) = 1 /\ values[1].typ = "uint8") =>
                  (last'.ok /\ setVal'.val = Append(setVal.val, values[1]))
             /\ (setVal.typ /= "[]byte" /\ builder.Keys = << >>
                   /\ Len(values) = 1 /\ values[1].typ = Elem(setVal.typ)) =>
                  (last'.ok /\ setVal'.val = Append(setVal.val, values[1]))]_vars

\* a []byte that held a byte before Open holds the blob of one Absorb
C20_Witness ==
    /\ setVal = Blob(<<1, 2>>) /\ builder.Keys = << >>
    /\ last.op = "Absorb" /\ last.ok /\ idx = 1

(***************************************************************************)
(* Pointers with identity (SpecRef).                                       *)
(***************************************************************************)
\* a row of one non-pointer number, for a destination of type *int
PlainRow(values) ==
    /\ setVal.typ = "*int" /\ idx = 0
    /\ Len(values) = 1 /\ values[1].typ = "int"

\* the storage that existed before the step holds what it held
OldStorageKept == \A a \in DOMAIN heap : heap'[a] = heap[a]

\* the nil half of C21: Absorb of a plain value into a nil pointer destination
\* sets the pointer to storage that did not exist before and that holds the
\* value
C21_NilPointerAllocates ==
    [][\A values \in RefRows :
          (PlainRow(values) /\ setVal.val = << >> /\ AbsorbRef(values)) =>
             /\ last'.ok /\ setVal'.val /= << >>
             /\ setVal'.val[1] \notin DOMAIN heap
             /\ heap'[setVal'.val[1]] = values[1]
             /\ OldStorageKept]_vars

\* C21: the same for a nil pointer destination; a pointer destination that
\* already refers to storage keeps its pointer, and the value is written
\* into that storage
C21_PointerWriteThrough ==
    [][\A values \in RefRows :
          (PlainRow(values) /\ AbsorbRef(values)) =>
             /\ last'.ok
             /\ setVal.val = << >> =>
                  /\ setVal'.val /= << >>
                  /\ setVal'.val[1] \notin DOMAIN heap
                  /\ heap'[setVal'.val[1]] = values[1]
                  /\ OldStorageKept
             /\ setVal.val /= << >> =>
                  /\ setVal' = setVal
                  /\ heap'[setVal.val[1]] = values[1]]_vars

\* a nil *int destination points to new storage holding the absorbed 1
C21_Witness ==
    /\ setVal.typ = "*int" /\ setVal.val /= << >> /\ setVal.val[1] > Len(CallerHeap)
    /\ heap[setVal.val[1]] = IntV(1)
    /\ last.op = "Absorb" /\ last.ok /\ idx = 1

\* the slot one value is written into: the field of the only key of a
\* record plan, or the destination itself
OneSlot(values) ==
    /\ builder /= NoBuilder /\ idx = 0
    /\ Len(values) = 1 /\ IsValid(values[1])
    /\ Kind(setVal.typ) = "Struct" =>
          (Len(builder.Fields) = 1 /\ builder.Fields[1].Index /= 0)

SlotType == IF Kind(setVal.typ) = "Struct" THEN builder.Fields[1].Type ELSE setVal.typ

Slot(into) == IF Kind(into.typ) = "Struct" THEN into.val[builder.Fields[1].Index] ELSE into

\* the priority order: what a slot of type t is to hold for the value v (in a
\* new pointee if fresh), or ok = FALSE if the call is to be fatal
AssignRule(h, t, v) ==
    IF v.typ = t THEN [ok |-> TRUE, fresh |-> FALSE, val |-> v]
    ELSE IF Kind(v.typ) = "Ptr" /\ Elem(v.typ) = t
    THEN [ok |-> TRUE, fresh |-> FALSE, val |-> Deref(h, v)]
    ELSE LET vt == IF Kind(v.typ) = "Ptr" THEN Elem(v.typ) ELSE v.typ
             target == IF Kind(t) = "Ptr" THEN Elem(t) ELSE t
         IN  IF ConvertibleTo(vt, target)
             THEN [ok |-> TRUE, fresh |-> Kind(t) = "Ptr", val |-> Convert(Deref(h, v), target)]
             ELSE [ok |-> FALSE, fresh |-> FALSE, val |-> Panic]

\* the step has written the slot as the priority order says
FollowsRule(values) ==
    LET e == AssignRule(heap, SlotType, values[1])
        slot == Slot(setVal')
    IN  IF e.ok
        THEN /\ last'.ok
             /\ OldStorageKept
             /\ IF e.fresh
                THEN /\ slot.val /= << >>
                     /\ slot.val[1] \notin DOMAIN heap
                     /\ heap'[slot.val[1]] = e.val
                ELSE slot = e.val
        ELSE ~last'.ok

\* C22 for source pointers that are not nil: the slot is written by the
\* priority order
C22_PriorityOrderNonNil ==
    [][\A values \in RefRows :
          (/\ OneSlot(values)
           /\ (Kind(values[1].typ) = "Ptr" /\ values[1].typ /= SlotType)
                 => values[1].val /= << >>
           /\ AbsorbRef(values)) => FollowsRule(values)]_vars

\* C22: one value is written into its slot by the priority order: stored as
\* it is if assignable (the same pointer), else its pointee if that is
\* assignable, else into a new pointee if the slot is a pointer, else
\* converted, and fatal only if no conversion exists
C22_PriorityOrder ==
    [][\A values \in RefRows :
          (OneSlot(values) /\ AbsorbRef(values)) => FollowsRule(values)]_vars

\* the field Value *string holds the caller's pointer &strVal itself
C22_Witness ==
    /\ setVal.typ = "StructWithPointerMember" /\ last.op = "Absorb" /\ last.ok
    /\ setVal.val[1] = RefVal("*string", 1)

(***************************************************************************)
(* The plan cache (SpecCache, SpecCacheKeys).                              *)
(***************************************************************************)
\* the session of g holds a plan
HasPlan(g) == thread[g].pc = "idle" /\ thread[g].builder /= 0

\* g and h asked for the same element type, tag and key sequence
SameTriple(g, h) ==
    /\ thread[g].typ = thread[h].typ
    /\ thread[g].tag = thread[h].tag
    /\ heap[thread[g].keys].val = heap[thread[h].keys].val

\* the addresses of the plans in storage
PlanCells == {a \in DOMAIN heap : heap[a].typ = "elementBuilder"}

\* C23: all sessions that asked for one triple hold one plan instance, the
\* one the cache holds under that triple, and an entry of the cache, once
\* there, is never replaced
C23_OneCanonicalPlan ==
    /\ [](\A g \in Threads, h \in Threads :
             (HasPlan(g) /\ HasPlan(h) /\ SameTriple(g, h)) =>
                thread[g].builder = thread[h].builder)
    /\ [](\A g \in Threads :
             HasPlan(g) =>
                /\ thread[g].typ \in DOMAIN cachedAbsorbers
                /\ heap[cachedAbsorbers[thread[g].typ]].val[thread[g].compoundKey]
                      = thread[g].builder)
    /\ [][\A t \in DOMAIN cachedAbsorbers :
             /\ t \in DOMAIN cachedAbsorbers'
             /\ cachedAbsorbers'[t] = cachedAbsorbers[t]
             /\ \A k \in DOMAIN heap[cachedAbsorbers[t]].val :
                   /\ k \in DOMAIN heap'[cachedAbsorbers[t]].val
                   /\ heap'[cachedAbsorbers[t]].val[k] = heap[cachedAbsorbers[t]].val[k]]_vars

\* two goroutines each built a candidate for one triple, and both hold the
\* same one of the two
C23_Witness ==
    /\ \A g \in Threads : HasPlan(g)
    /\ \A g \in Threads, h \in Threads :
          SameTriple(g, h) /\ thread[g].builder = thread[h].builder
    /\ \E a \in PlanCells, b \in PlanCells :
          a /= b /\ heap[a].val.Type = heap[b].val.Type
                 /\ heap[heap[a].val.Keys].val = heap[heap[b].val.Keys].val

\* the entries of the cache: <<type, compound key, address of the plan>>
CacheEntries ==
    UNION {{<<t, k, heap[cachedAbsorbers[t]].val[k]>> :
               k \in DOMAIN heap[cachedAbsorbers[t]].val} : t \in DOMAIN cachedAbsorbers}

\* every entry of the cache is still there, with the same plan instance
EntriesKept ==
    \A e \in CacheEntries :
       /\ e[1] \in DOMAIN cachedAbsorbers'
       /\ cachedAbsorbers'[e[1]] = cachedAbsorbers[e[1]]
       /\ e[2] \in DOMAIN heap'[cachedAbsorbers[e[1]]].val
       /\ heap'[cachedAbsorbers[e[1]]].val[e[2]] = e[3]

\* the part of C24 that holds: no entry of the cache is removed or replaced,
\* and the element type and the fields of a cached plan never change
C24_EntriesAndFieldsStable ==
    [][/\ EntriesKept
       /\ \A e \in CacheEntries :
             /\ PlanAt(heap', e[3]).Type = PlanAt(heap, e[3]).Type
             /\ PlanAt(heap', e[3]).Fields = PlanAt(heap, e[3]).Fields]_vars

\* C24: no entry of the cache is removed or replaced and a cached plan (its
\* element type, Keys and fields) never changes, whatever the sessions and
\* their callers do
C24_CachedPlanImmutable ==
    [][/\ EntriesKept
       /\ \A e \in CacheEntries : PlanAt(heap', e[3]) = PlanAt(heap, e[3])]_vars

\* a session holds the cached plan it asked for, and a caller has since
\* overwritten the key slice that plan was built from
C24_Witness ==
    \E g \in Threads, e \in CacheEntries :
       /\ HasPlan(g) /\ thread[g].builder = e[3]
       /\ compoundKey(thread[g].tag, PlanAt(heap, e[3]).Keys) /= e[2]

\* C25: the plan a session holds after Open(tag, count, keys) is the plan
\* of that element type, tag and key sequence, whatever was opened before
C25_PlanMatchesRequest ==
    [][\A a \in SepArgs, count \in Counts :
          (OpenUnwrap(a.tag, count, a.keys) /\ last'.ok) =>
             /\ builder'.Keys = a.keys
             /\ builder' = newBuilder(builder'.Type, a.tag, a.keys)]_vars

\* the cache holds a plan under the compound key of Name+Actual, and a
\* session has opened with the two keys Name, Actual
C25_Witness ==
    /\ last.op = "Open" /\ last.ok /\ builder.Keys = <<"Name", "Actual">>
    /\ <<builder.Type, ":Name+Actual">> \in DOMAIN cachedAbsorbers

(***************************************************************************)
(* Annotations against names (SpecClash).                                  *)
(***************************************************************************)
\* in type t, key is the annotation of field n under tag, and also the name,
\* exactly or ignoring case, of another field that has no annotation
Clashes(t, tag, key, n) ==
    LET fs == StructFields(t)
    IN  /\ tag \in DOMAIN fs[n].Tags /\ fs[n].Tags[tag] = key /\ key /= ""
        /\ \E m \in 1..Len(fs) :
              /\ m /= n /\ tag \notin DOMAIN fs[m].Tags
              /\ (fs[m].Name = key \/ ToLower(fs[m].Name) = ToLower(key))

\* C26: a key that is one field's annotation and another field's name binds
\* to the annotated field, in either declaration order
C26_AnnotationWins ==
    [][\A a \in ClashArgs, count \in Counts :
          (OpenUnwrap(a.tag, count, a.keys) /\ last'.ok) =>
             \A n \in 1..Len(StructFields(setVal.typ)) :
                Clashes(setVal.typ, a.tag, a.keys[1], n) =>
                   builder'.Fields[1].Index = n]_vars

\* the annotated field is declared after the field of that name, and the key
\* is bound to the annotated field
C26_Witness ==
    /\ setVal.typ = "TagLast" /\ last.op = "Open" /\ last.ok
    /\ builder.Keys = <<"Name">> /\ builder.Fields[1].Name = "Actual"

(***************************************************************************)
(* Concurrent Absorb calls on one session (SpecRace).                      *)
(***************************************************************************)
AllReturned == \A g \in Threads : ~Busy(g)

Serialized == \A g \in Threads : ~thread[g].raced

\* the destination holds the rows of the completed calls and the cursor
\* counts them
NothingLost ==
    /\ idx = Len(hist)
    /\ IF IsSlice THEN setVal.val = hist
       ELSE \A k \in 1..Len(hist) : k <= TypeLen(setVal.typ) /\ setVal.val[k] = hist[k]

\* C27: when no two Absorb calls on the session have overlapped, no row is
\* lost or overwritten and the cursor is the number of completed calls (that
\* overlapping calls can lose a row is the state of C27_Witness)
C27_SerializedNothingLost ==
    (AllReturned /\ Serialized) => NothingLost

\* two overlapping calls have both returned, and the sequence holds one row
\* or the cursor is 1
C27_Witness ==
    /\ AllReturned /\ Len(hist) = 2 /\ ~Serialized
    /\ idx < 2 \/ (IsSlice /\ Len(setVal.val) < 2) \/ (IsArray /\ setVal.val[2] = IntV(0))

(***************************************************************************)
(* A failing Absorb and the cursor (Spec and SpecUnwrap).                  *)
(***************************************************************************)
\* what a failing Absorb must leave alone: the destination, the queue and
\* the cursor
SessionKept == UNCHANGED <<setVal, idx, chanBuf, pending, received>>

\* C28: an Absorb that panics leaves the destination, the queue and the
\* cursor as they were
C28_FailingAbsorbKeepsSession ==
    [][\A values \in RowsUnwrap : (AbsorbUnwrap(values) /\ ~last'.ok) => SessionKept]_vars

\* C28, the part that holds: an Absorb that panics leaves the queue and the
\* cursor as they were, and the destination too unless it is a pointer
C28_FailingAbsorbKeepsCursor ==
    [][\A values \in RowsUnwrap : (AbsorbUnwrap(values) /\ ~last'.ok) =>
          /\ UNCHANGED <<idx, chanBuf, pending, received>>
          /\ Kind(setVal.typ) /= "Ptr" => UNCHANGED setVal]_vars

\* an Absorb on an open session has panicked, and the pointer destination,
\* into which no call has completed, is not nil
C28_Witness ==
    /\ last.op = "Absorb" /\ ~last.ok
    /\ builder /= NoBuilder /\ hist = << >>
    /\ Kind(setVal.typ) = "Ptr" /\ setVal.val /= << >>

\* the cursor counts the calls completed since Open, is 0 after Open, falls
\* only in Open, and stays within a fixed-size buffer
CursorCounts ==
    /\ [](idx = Len(hist))
    /\ []((last.op = "Open" /\ last.ok) => idx = 0)
    /\ [][idx' < idx => \E a \in OpenArgsUnwrap, count \in Counts :
                            OpenUnwrap(a.tag, count, a.keys)]_vars
    /\ [](IsArray => idx <= TypeLen(setVal.typ))

\* C29: the cursor is the number of Absorb calls completed since the most
\* recent Open, is 0 right after Open, never decreases between Opens, never
\* exceeds N for a fixed-size buffer and never exceeds 1 for a single-valued
\* destination
C29_CursorInvariants ==
    /\ CursorCounts
    /\ [](IsSingle => idx <= 1)

\* C29, the part that holds: all of it, with the limit of 1 for a
\* single-valued destination only in a session opened without keys
C29_CursorCounts ==
    /\ CursorCounts
    /\ []((IsSingle /\ builder /= NoBuilder /\ Len(builder.Keys) = 0) => idx <= 1)

\* a fixed-size buffer is full and a further Absorb has panicked
C29_Witness ==
    /\ IsArray /\ idx = TypeLen(setVal.typ) /\ Len(hist) = idx
    /\ last.op = "Absorb" /\ ~last.ok

(***************************************************************************)
(* Elements already stored, and later Absorb calls (SpecFresh).            *)
(***************************************************************************)
\* the elements session g has appended, written since Open, or sent
Published(t, g) ==
    CASE Kind(t[g].setVal.typ) = "Slice" -> t[g].setVal.val
      [] Kind(t[g].setVal.typ) = "Array" -> SubSeq(t[g].setVal.val, 1, t[g].idx)
      [] OTHER -> t[g].sent

\* an element with what it refers to: the entries of a map, the value a
\* pointer points to
Deep(h, e) ==
    IF Kind(e.typ) \in {"Map", "Ptr"} /\ e.val /= << >>
    THEN <<e, h[e.val[1]]>>
    ELSE <<e>>

\* C30: an element already appended, written to a buffer position or sent is
\* not modified by a later Absorb of the same or of another session, whatever
\* plan the sessions share
C30_StoredElementsNeverModified ==
    [][\A g \in Threads, values \in FreshRows : AbsorbFresh(g, values) =>
          \A h \in Threads : \A k \in 1..Len(Published(thread, h)) :
              /\ k <= Len(Published(thread', h))
              /\ Deep(heap', Published(thread', h)[k]) = Deep(heap, Published(thread, h)[k])]_vars

\* two sessions hold the same plan with two keys, and each has appended a
\* map built from a row of two values: the maps are different storage
C30_Witness ==
    /\ thread[1].builder = thread[2].builder
    /\ Len(thread[1].builder.Keys) = 2
    /\ \A g \in Threads :
          /\ Kind(thread[g].setVal.typ) = "Slice"
          /\ Kind(thread[g].builder.Type) = "Map"
          /\ Len(thread[g].setVal.val) >= 1
          /\ Cardinality(DOMAIN heap[thread[g].setVal.val[1].val[1]].val) = 2
    /\ thread[1].setVal.val[1] /= thread[2].setVal.val[1]

(***************************************************************************)
(* Claims about the top-level call (SpecTop).                              *)
(***************************************************************************)
\* C18: the top-level call constructs the session before Emit runs, returns
\* exactly the value Emit returns and changes nothing in doing so; once New,
\* Open or Absorb has panicked the call neither continues nor returns a value
C18_ErrorPassThrough ==
    /\ [](last.op \in {"Open", "Absorb", "Send", "Close", "Return"} => pc /= "new")
    /\ [][\A err \in Errors : Return(err) =>
             /\ last'.op = "Return" /\ last'.elem = err
             /\ UNCHANGED <<setVal, idx, builder, cachedAbsorbers, chanVars, hist>>]_vars
    /\ [][~last.ok => last' = last]_vars

\* the call has returned the data source's error after rows were absorbed
C18_Witness ==
    /\ last.op = "Return" /\ last.elem = [typ |-> "error", val |-> << >>]
    /\ idx > 0 /\ IsSlice /\ Len(setVal.val) = idx

====
